---- MODULE Spec2Model ----
(***************************************************************************)
(* Model of the adaptive scheduling engine of the learning platform:       *)
(*   - services/spaced_repetition.py  (SM-2 review scheduler)              *)
(*   - services/learning_path_engine.py (dependency graph, topological     *)
(*     order, progress navigator)                                          *)
(*   - routers/reviews.py, routers/tutoring.py (the handlers that call     *)
(*     them and store the results)                                         *)
(*                                                                         *)
(* Numbers.  The code works on Python floats.  Every decimal the code uses *)
(* (0.1, 0.08, 0.02, 1.3, 2.5, 0.7, 0.8, 0.9, 0.4) is a whole number of    *)
(* hundredths, so easiness factors, mastery scores and ratios are integers *)
(* counting hundredths.  An interval of days is the exact rational         *)
(* n / 100^e, kept as the record [n, e] in lowest such form (Norm).        *)
(***************************************************************************)
EXTENDS Integers, Sequences, FiniteSets, TLC

VARIABLES
    now,            \* the wall clock (datetime.utcnow()), in whole days
    question,       \* the stored Question row the review handlers work on
    session,        \* the stored ReviewSession row
    user_prefs,     \* the stored UserPreference row
    card_reviews,   \* the CardReview rows of the session, oldest first
    calc_args,      \* arguments of a direct call of calculate_next_review
    calc_ret,       \* <<>> before the call, <<tuple>> after it
    concepts,       \* the Concept rows of the topic, in id order
    learning_path,  \* <<>>, or <<the LearningPath row>> once one is stored
    pc,             \* where the create_learning_path request stands
    graph,          \* _topological_sort: prerequisite id -> dependents
    in_degree,      \* _topological_sort: concept id -> open prerequisites
    queue,          \* _topological_sort: the ready queue (concept ids)
    sorted_concepts,\* _topological_sort: the output so far (concept ids)
    enqueue_log,    \* history: ids in the order they entered the queue
    nav_args,       \* arguments of a direct call of get_next_concept
    nav_ret,        \* <<>> before the call, <<result>> after it
    interleave_args,  \* arguments of a direct call of interleave_questions
    interleave_ret,   \* <<>> before the call, <<returned list>> after it
    due_args,       \* arguments of a direct call of get_due_questions
    due_ret,        \* <<>> before the call, <<returned list>> after it
    adjust_args,    \* arguments of a direct call of adjust_difficulty
    adjust_ret,     \* <<>> before the call, <<returned tier>> after it
    req_answer,     \* concurrent submit_answer requests: the request bodies
    req_pc,         \* where each of them stands in the handler
    req_rows,       \* the rows each of them has loaded into its db session
    tutor_masteries,  \* per run: concept id -> <<>> or <<ConceptMastery row>>
    tutor_next,       \* per run: <<>> or <<what next-concept last returned>>
    tutor_requests,   \* end-session requests handled so far
    milestone_args,   \* argument of a direct call of _identify_milestones
    milestone_ret,    \* <<>> before the call, <<returned list>> after it
    adapt_args,     \* arguments of a direct call of adapt_path
    adapt_ret,      \* <<>> before the call, <<returned report>> after it
    gaps_args,      \* arguments of a direct call of identify_knowledge_gaps
    gaps_ret,       \* <<>> before the call, <<returned list>> after it
    create_args,    \* the concepts of a direct call of create_learning_path
    create_ret,     \* <<>> before the call, <<returned dict>> after it
    new_args,       \* arguments of a direct call of get_new_questions
    new_ret,        \* <<>> before the call, <<returned list>> after it
    nextq_args,     \* the rows and the limit of a next-questions request
    nextq_ret       \* <<>> before the request, <<returned ids>> after it

reviewVars == <<question, session, user_prefs, card_reviews>>
calcVars   == <<calc_args, calc_ret>>
sortVars   == <<pc, graph, in_degree, queue, sorted_concepts, enqueue_log>>
pathVars   == <<concepts, learning_path, sortVars>>
navVars    == <<nav_args, nav_ret>>
interleaveVars == <<interleave_args, interleave_ret>>
dueVars    == <<due_args, due_ret>>
adjustVars == <<adjust_args, adjust_ret>>
requestVars == <<req_answer, req_pc, req_rows>>
tutorVars  == <<tutor_masteries, tutor_next, tutor_requests>>
milestoneVars == <<milestone_args, milestone_ret>>
adaptVars  == <<adapt_args, adapt_ret>>
gapsVars   == <<gaps_args, gaps_ret>>
createVars == <<create_args, create_ret>>
newVars    == <<new_args, new_ret>>
nextqVars  == <<nextq_args, nextq_ret>>
moreVars   == <<adaptVars, gapsVars, createVars, newVars, nextqVars>>
otherVars  == <<dueVars, adjustVars, requestVars, tutorVars, milestoneVars,
                moreVars>>
vars == <<now, reviewVars, calcVars, pathVars, navVars, interleaveVars,
          otherVars>>

----------------------------------------------------------------------------
(* Bounds of the model *)

\* submit_answer calls accepted for the question
MaxReviews == 3
\* the clock stops advancing at this day
MaxClock == 1
\* largest `repetitions` argument of a direct call
MaxReps == 3
\* Concept rows created in the topic
MaxConcepts == 3
\* prerequisite entries over all Concept rows together
MaxEdges == 3
\* prerequisite entries over the concepts of a direct get_next_concept call
MaxNavEdges == 2
\* largest current_concept_index of a direct get_next_concept call
MaxCursor == 3
\* longest list handed to a direct interleave_questions call
MaxQuestions == 5
\* longest list handed to a direct get_due_questions call
MaxDueItems == 3
\* latest next_review_date and current_time of a direct get_due_questions call
MaxDueDay == 2
\* largest times_reviewed of a direct adjust_difficulty call
MaxTimesReviewed == 10
\* end-session requests of the tutoring specification
MaxTutorRequests == 2
\* longest sequence handed to a direct _identify_milestones call
MaxPathLength == 5
\* longest recent_performance of a direct adapt_path call
MaxPerformance == 2
\* longest concept_masteries of a direct adapt_path call
MaxMasteries == 2
\* concepts handed to a direct identify_knowledge_gaps call
MaxGapConcepts == 2
\* longest prerequisite list of one of these concepts
MaxGapPrereqs == 2
\* Question rows stored when next-questions is requested
MaxStoredQuestions == 3

----------------------------------------------------------------------------
(* Arithmetic helpers *)

Max(a, b) == IF a >= b THEN a ELSE b

RECURSIVE Pow100(_)
Pow100(e) == IF e = 0 THEN 1 ELSE 100 * Pow100(e - 1)

RECURSIVE GCD(_, _)
GCD(a, b) == IF b = 0 THEN a ELSE GCD(b, a % b)

\* the rational n / 100^e with trailing factors of 100 removed
RECURSIVE Norm(_, _)
Norm(n, e) == IF e > 0 /\ n % 100 = 0 THEN Norm(n \div 100, e - 1)
              ELSE [n |-> n, e |-> e]

\* a whole number of days as an interval
Days(d) == [n |-> d, e |-> 0]

\* days * ef, ef in hundredths (python: interval_days * new_ef)
MulEF(days, ef) == Norm(days.n * ef, days.e + 1)

\* a + b on intervals
AddDays(a, b) ==
    LET e == Max(a.e, b.e)
    IN  Norm(a.n * Pow100(e - a.e) + b.n * Pow100(e - b.e), e)

\* a <= b on intervals
LeqDays(a, b) ==
    LET e == Max(a.e, b.e)
    IN  a.n * Pow100(e - a.e) <= b.n * Pow100(e - b.e)

\* a = b on intervals
EqDays(a, b) == LeqDays(a, b) /\ LeqDays(b, a)

----------------------------------------------------------------------------
(* services/spaced_repetition.py *)

\* the SM-2 quality scale of the class docstring
QualityRange == 0 .. 5

\* the lower clamp of the easiness factor, 1.3
EF_FLOOR == 130

\* the linear term taken as 0.1 instead of 0.08
EFDelta_SteeperLinear(quality) ==
    10 - (5 - quality) * (10 + (5 - quality) * 2)

\* 0.1 - (5 - q) * (0.08 + (5 - q) * 0.02), in hundredths
EFDelta(quality) == 10 - (5 - quality) * (8 + (5 - quality) * 2)

\* the floor left out: easiness_factor + delta, unclamped
NewEF_NoFloor(quality, easiness_factor) == easiness_factor + EFDelta(quality)

\* new_ef = max(1.3, easiness_factor + ...)
NewEF(quality, easiness_factor) ==
    Max(EF_FLOOR, easiness_factor + EFDelta(quality))

\* the lapse test one grade too low
IsLapse_Below2(quality) == quality < 2

\* if quality < 3: start over
IsLapse(quality) == quality < 3

\* the second seed interval left out
NewInterval_NoSecondSeed(new_repetitions, interval_days, new_ef) ==
    IF new_repetitions = 1 THEN Days(1) ELSE MulEF(interval_days, new_ef)

\* the interval of a successful review
NewInterval(new_repetitions, interval_days, new_ef) ==
    IF new_repetitions = 1 THEN Days(1)
    ELSE IF new_repetitions = 2 THEN Days(6)
    ELSE MulEF(interval_days, new_ef)

\* a lapse scheduled for the next day, as in the published SM-2
calculate_next_review_LapseOneDay(quality, repetitions, easiness_factor, interval_days, clock) ==
    LET new_ef == NewEF(quality, easiness_factor)
        new_repetitions == IF IsLapse(quality) THEN 0 ELSE repetitions + 1
        new_interval ==
            IF IsLapse(quality) THEN Days(1)
            ELSE NewInterval(new_repetitions, interval_days, new_ef)
    IN  [ new_repetitions |-> new_repetitions,
          new_ef          |-> new_ef,
          new_interval    |-> new_interval,
          next_review     |-> AddDays(Days(clock), new_interval) ]

\* the interval grown by the easiness factor as it was before the review
calculate_next_review_OldEF(quality, repetitions, easiness_factor, interval_days, clock) ==
    LET new_ef == NewEF(quality, easiness_factor)
        new_repetitions == IF IsLapse(quality) THEN 0 ELSE repetitions + 1
        new_interval ==
            IF IsLapse(quality) THEN Days(0)
            ELSE NewInterval(new_repetitions, interval_days, easiness_factor)
    IN  [ new_repetitions |-> new_repetitions,
          new_ef          |-> new_ef,
          new_interval    |-> new_interval,
          next_review     |-> AddDays(Days(clock), new_interval) ]

calculate_next_review(quality, repetitions, easiness_factor, interval_days, clock) ==
    LET new_ef == NewEF(quality, easiness_factor)
        new_repetitions == IF IsLapse(quality) THEN 0 ELSE repetitions + 1
        new_interval ==
            IF IsLapse(quality) THEN Days(0)
            ELSE NewInterval(new_repetitions, interval_days, new_ef)
    IN  [ new_repetitions |-> new_repetitions,
          new_ef          |-> new_ef,
          new_interval    |-> new_interval,
          next_review     |-> AddDays(Days(clock), new_interval) ]

Difficulties == {"easy", "medium", "hard"}

\* the accuracy compared with >= 0.9
AccuracyAbove90_Inclusive(q) ==
    q.times_correct * 10 >= 9 * Max(q.times_reviewed, 1)

\* times_correct / max(times_reviewed, 1) > 0.9, and < 0.4
AccuracyAbove90(q) == q.times_correct * 10 > 9 * Max(q.times_reviewed, 1)
AccuracyBelow40(q) == q.times_correct * 10 < 4 * Max(q.times_reviewed, 1)

adjust_difficulty(q, is_correct) ==
    IF is_correct /\ AccuracyAbove90(q) THEN
        IF q.difficulty = "easy" THEN "medium"
        ELSE IF q.difficulty = "medium" THEN "hard"
        ELSE q.difficulty
    ELSE IF ~is_correct /\ AccuracyBelow40(q) THEN
        IF q.difficulty = "hard" THEN "medium"
        ELSE IF q.difficulty = "medium" THEN "easy"
        ELSE q.difficulty
    ELSE q.difficulty

----------------------------------------------------------------------------
(* models/models.py: a Question row as its column defaults leave it *)

DEFAULT_EF == 250

FreshQuestion(difficulty) ==
    [ easiness_factor  |-> DEFAULT_EF,
      repetitions      |-> 0,
      interval_days    |-> Days(0),
      next_review_date |-> Days(0),
      times_reviewed   |-> 0,
      times_correct    |-> 0,
      difficulty       |-> difficulty ]

FreshSession == [ total_questions |-> 0, correct_answers |-> 0 ]

\* avg_accuracy is the exact fraction num / den
FreshPrefs == [ total_reviews |-> 0, avg_num |-> 0, avg_den |-> 1 ]

\* the rows and call records a specification leaves untouched
IdleCalc == calc_args = [ quality |-> 0, repetitions |-> 0,
                          easiness_factor |-> DEFAULT_EF,
                          interval_days |-> Days(0) ]
            /\ calc_ret = <<>>

IdleReview ==
    /\ question = FreshQuestion("medium")
    /\ session = FreshSession
    /\ user_prefs = FreshPrefs
    /\ card_reviews = <<>>

IdleNav ==
    /\ nav_args = [ concept_sequence |-> <<>>, current_concept_index |-> 0,
                    concept_masteries |-> <<>>, concepts |-> <<>> ]
    /\ nav_ret = <<>>

IdleInterleave ==
    /\ interleave_args = [ questions |-> <<>>, interleaving_ratio |-> 0 ]
    /\ interleave_ret = <<>>

IdleDue ==
    /\ due_args = [ questions |-> <<>>, current_time |-> <<>> ]
    /\ due_ret = <<>>

IdleAdjust ==
    /\ adjust_args = [ question |-> [ difficulty |-> "medium",
                                      times_reviewed |-> 0,
                                      times_correct |-> 0 ],
                       is_correct |-> FALSE ]
    /\ adjust_ret = <<>>

\* the two requests of the concurrent specification
Requests == { 1, 2 }

NothingLoaded ==
    [ question |-> FreshQuestion("medium"), session |-> FreshSession,
      user_prefs |-> FreshPrefs ]

IdleRequests ==
    /\ req_answer = [ r \in Requests |->
                        [ confidence |-> 0, is_correct |-> FALSE ] ]
    /\ req_pc = [ r \in Requests |-> "committed" ]
    /\ req_rows = [ r \in Requests |-> NothingLoaded ]

\* the tutoring specification follows two runs of the same requests that
\* differ only in what the AI collaborator answers
Runs == { 1, 2 }

\* the concepts of the learning path of the tutoring specification
TutorConceptIds == { 1, 2 }

IdleTutor ==
    /\ tutor_masteries = [ run \in Runs |-> [ c \in TutorConceptIds |-> <<>> ] ]
    /\ tutor_next = [ run \in Runs |-> <<>> ]
    /\ tutor_requests = 0

IdleMilestones ==
    /\ milestone_args = <<>>
    /\ milestone_ret = <<>>

IdleAdapt ==
    /\ adapt_args = [ learning_path |-> [ pace |-> <<>> ],
                      recent_performance |-> <<>>,
                      concept_masteries |-> <<>> ]
    /\ adapt_ret = <<>>

IdleGaps ==
    /\ gaps_args = [ concept_masteries |-> <<>>, concepts |-> <<>> ]
    /\ gaps_ret = <<>>

IdleCreate ==
    /\ create_args = <<>>
    /\ create_ret = <<>>

IdleNew ==
    /\ new_args = [ questions |-> <<>>, limit |-> 0 ]
    /\ new_ret = <<>>

IdleNextQuestions ==
    /\ nextq_args = [ all_questions |-> <<>>, interleaving_ratio |-> <<>>,
                      limit |-> 0 ]
    /\ nextq_ret = <<>>

IdleMore ==
    IdleAdapt /\ IdleGaps /\ IdleCreate /\ IdleNew /\ IdleNextQuestions

IdleOther ==
    /\ IdleDue /\ IdleAdjust /\ IdleRequests /\ IdleTutor /\ IdleMilestones
    /\ IdleMore

----------------------------------------------------------------------------
(* services/learning_path_engine.py: dependency graph and topological sort *)

\* ids a prerequisite list may name: those of the rows that can exist
ConceptIds == 1 .. MaxConcepts

\* the difficulty levels used (of the 1-5 scale)
DifficultyLevels == {1, 3}

\* Concept.estimated_time_minutes, left at its column default
DEFAULT_MINUTES == 30

Range(seq) == { seq[i] : i \in 1 .. Len(seq) }

\* position of the first x in seq, 0 when absent
RECURSIVE IndexOf(_, _)
IndexOf(seq, x) ==
    IF seq = <<>> THEN 0
    ELSE IF Head(seq) = x THEN 1
    ELSE LET r == IndexOf(Tail(seq), x) IN IF r = 0 THEN 0 ELSE r + 1

\* concept_map[id], for an id of `cs`
ConceptOf(cs, id) == cs[CHOOSE i \in 1 .. Len(cs) : cs[i].id = id]

IdsOf(cs) == [ i \in 1 .. Len(cs) |-> cs[i].id ]

\* the (prerequisite, concept) pairs in the order the two nested loops of
\* _build_dependency_graph visit them
RECURSIVE EdgeList(_)
EdgeList(cs) ==
    IF cs = <<>> THEN <<>>
    ELSE [ i \in 1 .. Len(Head(cs).prerequisites) |->
             << Head(cs).prerequisites[i], Head(cs).id >> ]
         \o EdgeList(Tail(cs))

\* graph[prereq_id].append(concept_id); graph.get(id, []) is <<>> elsewhere
build_dependency_graph(cs) ==
    [ p \in ConceptIds |->
        LET es == SelectSeq(EdgeList(cs), LAMBDA e : e[1] = p)
        IN  [ i \in 1 .. Len(es) |-> es[i][2] ] ]

\* in_degree[concept['id']] += 1 for each prerequisite entry
InitialInDegree(cs) ==
    [ c \in ConceptIds |->
        IF c \in Range(IdsOf(cs)) THEN Len(ConceptOf(cs, c).prerequisites)
        ELSE 0 ]

\* x placed after every element whose key is not larger
RECURSIVE InsertByDifficulty(_, _, _)
InsertByDifficulty(cs, sortedq, x) ==
    IF sortedq = <<>> THEN << x >>
    ELSE IF ConceptOf(cs, Head(sortedq)).difficulty_level
              <= ConceptOf(cs, x).difficulty_level
         THEN << Head(sortedq) >> \o InsertByDifficulty(cs, Tail(sortedq), x)
         ELSE << x >> \o sortedq

RECURSIVE SortFrom(_, _, _)
SortFrom(cs, done, rest) ==
    IF rest = <<>> THEN done
    ELSE SortFrom(cs, InsertByDifficulty(cs, done, Head(rest)), Tail(rest))

\* the queue left in arrival order
SortedByDifficulty_Unsorted(cs, q) == q

\* sorted(queue, key=difficulty_level): ascending and stable
SortedByDifficulty(cs, q) == SortFrom(cs, <<>>, q)

\* a dependent enqueued as soon as one of its prerequisites is emitted
Enqueues_Always(degree) == TRUE

\* if in_degree[dependent_id] == 0: queue.append(...)
Enqueues(degree) == degree = 0

\* the for loop over graph.get(concept['id'], []): the in-degrees, the queue
\* and the entry log after it
\* the dependents left as they are: no in-degree reduced, none enqueued
ReleaseDependents_KeepsDegree(deps, deg, q, log) ==
    [ in_degree |-> deg, queue |-> q, log |-> log ]

RECURSIVE ReleaseDependents(_, _, _, _)
ReleaseDependents(deps, deg, q, log) ==
    IF deps = <<>> THEN [ in_degree |-> deg, queue |-> q, log |-> log ]
    ELSE LET d == Head(deps)
             deg2 == [ deg EXCEPT ![d] = @ - 1 ]
         IN  IF Enqueues(deg2[d])
             THEN ReleaseDependents(Tail(deps), deg2, Append(q, d), Append(log, d))
             ELSE ReleaseDependents(Tail(deps), deg2, q, log)

\* the index without the step back by one
MilestoneIndex_NoStepBack(total, percentage) == (total * percentage) \div 100

\* int(total * pct) - 1 for pct = 0.25, 0.5, 0.75, 1.0
MilestoneIndex(total, percentage) == (total * percentage) \div 100 - 1

\* _identify_milestones; positions here count from 1
identify_milestones(seq) ==
    LET marks == << 25, 50, 75, 100 >>
        kept == SelectSeq(marks, LAMBDA m :
                    /\ 0 <= MilestoneIndex(Len(seq), m)
                    /\ MilestoneIndex(Len(seq), m) < Len(seq))
    IN  [ i \in 1 .. Len(kept) |->
            [ percentage |-> kept[i],
              concept_id |-> seq[MilestoneIndex(Len(seq), kept[i]) + 1] ] ]

\* the dict create_learning_path returns, for the sorted ids `seq`;
\* estimated_hours counts tenths of an hour
PathData(cs, seq) ==
    [ concept_sequence |-> seq,
      total_concepts   |-> Len(seq),
      estimated_hours  |-> (Len(seq) * DEFAULT_MINUTES * 10) \div 60,
      difficulty_curve |-> [ i \in 1 .. Len(seq) |->
                               ConceptOf(cs, seq[i]).difficulty_level ],
      milestones       |-> identify_milestones(seq) ]

----------------------------------------------------------------------------
(* routers/tutoring.py *)

EdgeCount(cs) == Len(EdgeList(cs))

\* prerequisite lists of at most n ids of S, repeats allowed; ids are kept
\* in nondecreasing order, the order inside one list changing nothing the
\* engine computes from it
RECURSIVE PrerequisiteLists(_, _)
PrerequisiteLists(S, n) ==
    IF n = 0 THEN { <<>> }
    ELSE LET shorter == PrerequisiteLists(S, n - 1)
         IN  shorter \cup
             UNION { { Append(q, x) :
                         x \in { y \in S : \A i \in 1 .. Len(q) : q[i] <= y } } :
                     q \in shorter }

\* POST /tutoring/concepts
CreateConcept(prerequisites, difficulty_level) ==
    /\ pc = "idle"
    /\ learning_path = <<>>
    /\ Len(concepts) < MaxConcepts
    /\ EdgeCount(concepts) + Len(prerequisites) <= MaxEdges
    /\ concepts' = Append(concepts,
           [ id |-> Len(concepts) + 1,
             prerequisites |-> prerequisites,
             difficulty_level |-> difficulty_level ])
    /\ UNCHANGED <<now, reviewVars, calcVars, navVars, interleaveVars,
                   otherVars, learning_path, sortVars>>

\* POST /tutoring/learning-paths, up to the while loop of _topological_sort
StartLearningPath ==
    /\ pc = "idle"
    /\ learning_path = <<>>
    /\ concepts # <<>>
    /\ pc' = "sort"
    /\ graph' = build_dependency_graph(concepts)
    /\ in_degree' = InitialInDegree(concepts)
    /\ queue' = SelectSeq(IdsOf(concepts),
                          LAMBDA c : InitialInDegree(concepts)[c] = 0)
    /\ enqueue_log' = queue'
    /\ sorted_concepts' = <<>>
    /\ UNCHANGED <<now, reviewVars, calcVars, navVars, interleaveVars,
                   otherVars, concepts, learning_path>>

\* one iteration of `while queue`
SortStep ==
    /\ pc = "sort"
    /\ queue # <<>>
    /\ LET ordered == SortedByDifficulty(concepts, queue)
           concept == Head(ordered)
           r == ReleaseDependents(graph[concept], in_degree, Tail(ordered),
                                  enqueue_log)
       IN  /\ sorted_concepts' = Append(sorted_concepts, concept)
           /\ in_degree' = r.in_degree
           /\ queue' = r.queue
           /\ enqueue_log' = r.log
    /\ UNCHANGED <<now, reviewVars, calcVars, navVars, interleaveVars,
                   otherVars, concepts, learning_path, pc,
                   graph>>

\* the loop has ended: the path is assembled and stored
StoreLearningPath ==
    /\ pc = "sort"
    /\ queue = <<>>
    /\ LET path_data == PathData(concepts, sorted_concepts)
       IN  learning_path' = <<
               [ concept_sequence   |-> path_data.concept_sequence,
                 total_concepts     |-> path_data.total_concepts,
                 current_concept_id |->
                     IF path_data.concept_sequence # <<>>
                     THEN path_data.concept_sequence[1] ELSE 0,
                 concepts_mastered  |-> 0,
                 path_data          |-> path_data ] >>
    /\ pc' = "idle"
    /\ UNCHANGED <<now, reviewVars, calcVars, navVars, interleaveVars,
                   otherVars, concepts, graph, in_degree,
                   queue, sorted_concepts, enqueue_log>>

IdlePath ==
    /\ concepts = <<>>
    /\ learning_path = <<>>
    /\ pc = "idle"
    /\ graph = [ p \in ConceptIds |-> <<>> ]
    /\ in_degree = [ c \in ConceptIds |-> 0 ]
    /\ queue = <<>>
    /\ sorted_concepts = <<>>
    /\ enqueue_log = <<>>

InitPath ==
    /\ now = 0
    /\ IdleReview
    /\ IdleCalc
    /\ IdlePath
    /\ IdleNav
    /\ IdleInterleave
    /\ IdleOther

NextPath ==
    \/ \E ps \in PrerequisiteLists(ConceptIds, MaxEdges), d \in DifficultyLevels :
           CreateConcept(ps, d)
    \/ StartLearningPath
    \/ SortStep
    \/ StoreLearningPath

SpecPath == InitPath /\ [][NextPath]_vars

\* the handler, once started, runs its loop and stores the path: a request
\* is executed to its end
SpecPathFair ==
    SpecPath /\ WF_vars(SortStep) /\ WF_vars(StoreLearningPath)

----------------------------------------------------------------------------
(* services/learning_path_engine.py: get_next_concept *)

\* mastery_map.get(id) of an id without a ConceptMastery row
NoRecord == -1

\* threshold=0.7 of the prerequisite gate
PREREQ_THRESHOLD == 70

\* the mastery_score from which a concept counts as mastered, 0.8
MASTERED_SCORE == 80

\* the ids of the concepts, prerequisites and mastery rows of a direct call
NavIds == {1, 2, 3}

\* {m['concept_id']: m for m in concept_masteries}: a later row wins
RECURSIVE MasteryMapFrom(_, _)
MasteryMapFrom(rows, map) ==
    IF rows = <<>> THEN map
    ELSE MasteryMapFrom(Tail(rows),
             [ map EXCEPT ![Head(rows).concept_id] = Head(rows).mastery_score ])

MasteryMap(rows) ==
    MasteryMapFrom(rows, [ id \in NavIds \cup ConceptIds |-> NoRecord ])

\* the gate asking for more than the score that counts as mastered
PrerequisiteFails_AboveMastered(mastery_map, prereq_id, threshold) ==
    mastery_map[prereq_id] = NoRecord \/ mastery_map[prereq_id] <= 80

\* a prerequisite without a mastery row taken as met
PrerequisiteFails_RowRequired(mastery_map, prereq_id, threshold) ==
    mastery_map[prereq_id] # NoRecord /\ mastery_map[prereq_id] < threshold

\* not mastery or mastery.get('mastery_score', 0) < threshold
PrerequisiteFails(mastery_map, prereq_id, threshold) ==
    mastery_map[prereq_id] = NoRecord \/ mastery_map[prereq_id] < threshold

check_prerequisites_met(concept, mastery_map, threshold) ==
    \A i \in 1 .. Len(concept.prerequisites) :
        ~PrerequisiteFails(mastery_map, concept.prerequisites[i], threshold)

NoConcept ==
    [ found |-> FALSE, concept_id |-> 0, index |-> 0,
      progress |-> [ num |-> 0, den |-> 1 ] ]

\* the for loop from position idx (counted from 0); progress is the
\* fraction num / den of (idx / len(sequence)) * 100
RECURSIVE ScanFrom(_, _, _, _)
ScanFrom(sequence, idx, mastery_map, cs) ==
    IF idx >= Len(sequence) THEN NoConcept
    ELSE LET concept_id == sequence[idx + 1]
         IN  IF concept_id \notin Range(IdsOf(cs))
             THEN ScanFrom(sequence, idx + 1, mastery_map, cs)
             ELSE IF /\ check_prerequisites_met(ConceptOf(cs, concept_id),
                                                mastery_map, PREREQ_THRESHOLD)
                     /\ \/ mastery_map[concept_id] = NoRecord
                        \/ mastery_map[concept_id] < MASTERED_SCORE
                  THEN [ found |-> TRUE, concept_id |-> concept_id,
                         index |-> idx,
                         progress |-> [ num |-> idx * 100,
                                        den |-> Len(sequence) ] ]
                  ELSE ScanFrom(sequence, idx + 1, mastery_map, cs)

\* the scan started at the head of the sequence whatever the cursor
get_next_concept_FromStart(path, concept_masteries, cs) ==
    IF path.current_concept_index >= Len(path.concept_sequence) THEN NoConcept
    ELSE ScanFrom(path.concept_sequence, 0,
                  MasteryMap(concept_masteries), cs)

get_next_concept(path, concept_masteries, cs) ==
    IF path.current_concept_index >= Len(path.concept_sequence) THEN NoConcept
    ELSE ScanFrom(path.concept_sequence, path.current_concept_index,
                  MasteryMap(concept_masteries), cs)

----------------------------------------------------------------------------
(* Direct calls of get_next_concept on arbitrary arguments *)

\* no row, below the gate, at the gate, mastered
MasteryValues == { NoRecord, 50, 70, 80 }

\* the rows of a mastery assignment, in id order
MasteryRows(f) ==
    LET ids == SelectSeq(<< 1, 2, 3 >>, LAMBDA id : f[id] # NoRecord)
    IN  [ i \in 1 .. Len(ids) |->
            [ concept_id |-> ids[i], mastery_score |-> f[ids[i]] ] ]

\* the concept dicts 1 .. n the endpoint hands over
RECURSIVE NavConceptLists(_)
NavConceptLists(n) ==
    IF n = 0 THEN { <<>> }
    ELSE { cs \in { Append(shorter, [ id |-> n, prerequisites |-> ps ]) :
                      shorter \in NavConceptLists(n - 1),
                      ps \in PrerequisiteLists(NavIds, MaxNavEdges) } :
             EdgeCount(cs) <= MaxNavEdges }

\* the sequences tried over the concepts 1 .. n: in id order and reversed
\* (renaming ids maps any other order of distinct ids to the first)
NavSequences(n) ==
    { [ i \in 1 .. n |-> i ], [ i \in 1 .. n |-> n + 1 - i ] }

NavArgs ==
    UNION { [ concept_sequence : NavSequences(n),
              current_concept_index : 0 .. MaxCursor,
              concept_masteries : { MasteryRows(f) :
                                      f \in [ NavIds -> MasteryValues ] },
              concepts : NavConceptLists(n) ] :
            n \in 0 .. Cardinality(NavIds) }

CallNext ==
    /\ nav_ret = <<>>
    /\ nav_ret' = << get_next_concept(
                       [ concept_sequence |-> nav_args.concept_sequence,
                         current_concept_index |->
                             nav_args.current_concept_index ],
                       nav_args.concept_masteries, nav_args.concepts) >>
    /\ UNCHANGED <<now, reviewVars, calcVars, pathVars, nav_args,
                   interleaveVars, otherVars>>

InitNav ==
    /\ now = 0
    /\ IdleReview
    /\ IdleCalc
    /\ IdlePath
    /\ nav_args \in NavArgs
    /\ nav_ret = <<>>
    /\ IdleInterleave
    /\ IdleOther

NextNav == CallNext

SpecNav == InitNav /\ [][NextNav]_vars

----------------------------------------------------------------------------
(* services/spaced_repetition.py: interleave_questions *)

\* the keys of topic_groups in the order the loop first meets them
RECURSIVE TopicKeys(_, _)
TopicKeys(questions, keys) ==
    IF questions = <<>> THEN keys
    ELSE TopicKeys(Tail(questions),
                   IF Head(questions).topic_id \in Range(keys) THEN keys
                   ELSE Append(keys, Head(questions).topic_id))

\* the topic lists in ascending topic id instead of first-seen order
topic_groups_ByTopicId(questions) ==
    LET keys == SelectSeq(<< 1, 2, 3 >>,
                    LAMBDA t : \E i \in 1 .. Len(questions) :
                                   questions[i].topic_id = t)
    IN  [ k \in 1 .. Len(keys) |->
            SelectSeq(questions, LAMBDA q : q.topic_id = keys[k]) ]

\* list(topic_groups.values()): one list per topic, each in input order
topic_groups(questions) ==
    LET keys == TopicKeys(questions, <<>>)
    IN  [ k \in 1 .. Len(keys) |->
            SelectSeq(questions, LAMBDA q : q.topic_id = keys[k]) ]

\* each visit of a topic list taking all its items instead of the first
RECURSIVE PassOver_DrainsList(_, _, _)
PassOver_DrainsList(topic_lists, i, interleaved) ==
    IF i > Len(topic_lists)
    THEN [ topic_lists |-> topic_lists, interleaved |-> interleaved ]
    ELSE PassOver_DrainsList([ topic_lists EXCEPT ![i] = <<>> ], i + 1,
                             interleaved \o topic_lists[i])

\* one pass of the for loop over topic_lists, from list i on
RECURSIVE PassOver(_, _, _)
PassOver(topic_lists, i, interleaved) ==
    IF i > Len(topic_lists)
    THEN [ topic_lists |-> topic_lists, interleaved |-> interleaved ]
    ELSE IF topic_lists[i] # <<>>
         THEN PassOver([ topic_lists EXCEPT ![i] = Tail(@) ], i + 1,
                       Append(interleaved, Head(topic_lists[i])))
         ELSE PassOver(topic_lists, i + 1, interleaved)

\* a single pass over the topics instead of passes until all are empty
WhileAny_SinglePass(topic_lists, interleaved) ==
    PassOver(topic_lists, 1, interleaved).interleaved

\* while any(topic_lists)
RECURSIVE WhileAny(_, _)
WhileAny(topic_lists, interleaved) ==
    IF \A i \in 1 .. Len(topic_lists) : topic_lists[i] = <<>>
    THEN interleaved
    ELSE LET pass == PassOver(topic_lists, 1, interleaved)
         IN  WhileAny(pass.topic_lists, pass.interleaved)

interleave_questions(questions, interleaving_ratio) ==
    IF questions = <<>> \/ interleaving_ratio = 0 THEN questions
    ELSE WhileAny(topic_groups(questions), <<>>)

----------------------------------------------------------------------------
(* Direct calls of interleave_questions on arbitrary arguments *)

\* Question rows: three of topic 1, two of topic 2, one of topic 3
QuestionPool ==
    { [ id |-> 1, topic_id |-> 1 ], [ id |-> 2, topic_id |-> 1 ],
      [ id |-> 3, topic_id |-> 1 ], [ id |-> 4, topic_id |-> 2 ],
      [ id |-> 5, topic_id |-> 2 ], [ id |-> 6, topic_id |-> 3 ] }

\* interleaving_ratio in hundredths: 0, the default 0.3, and 1
Ratios == { 0, 30, 100 }

\* lists of rows, the same row possibly more than once
QuestionLists == UNION { [ 1 .. n -> QuestionPool ] : n \in 0 .. MaxQuestions }

CallInterleave ==
    /\ interleave_ret = <<>>
    /\ interleave_ret' = << interleave_questions(
                               interleave_args.questions,
                               interleave_args.interleaving_ratio) >>
    /\ UNCHANGED <<now, reviewVars, calcVars, pathVars, navVars,
                   interleave_args, otherVars>>

InitInterleave ==
    /\ now = 0
    /\ IdleReview
    /\ IdleCalc
    /\ IdlePath
    /\ IdleNav
    /\ interleave_args \in [ questions : QuestionLists,
                             interleaving_ratio : Ratios ]
    /\ interleave_ret = <<>>
    /\ IdleOther

NextInterleave == CallInterleave

SpecInterleave == InitInterleave /\ [][NextInterleave]_vars

----------------------------------------------------------------------------
(* services/spaced_repetition.py: get_due_questions *)

\* the comparison taken strictly
IsDue_Strict(q, current_time) == q.next_review_date < current_time

\* q.next_review_date <= current_time
IsDue(q, current_time) == q.next_review_date <= current_time

\* current_time is <<>> for None and <<t>> otherwise; clock is the reading
\* datetime.utcnow() gives when current_time is None
get_due_questions(questions, current_time, clock) ==
    LET t == IF current_time = <<>> THEN clock ELSE current_time[1]
    IN  SelectSeq(questions, LAMBDA q : IsDue(q, t))

----------------------------------------------------------------------------
(* Direct calls of get_due_questions on arbitrary arguments *)

DueDays == 0 .. MaxDueDay

\* lists of Question rows 1 .. n with any review dates
DueLists ==
    UNION { { [ i \in 1 .. n |-> [ id |-> i, next_review_date |-> d[i] ] ] :
                d \in [ 1 .. n -> DueDays ] } : n \in 0 .. MaxDueItems }

CallDue ==
    /\ due_ret = <<>>
    /\ due_ret' = << get_due_questions(due_args.questions,
                                       due_args.current_time, now) >>
    /\ UNCHANGED <<now, reviewVars, calcVars, pathVars, navVars,
                   interleaveVars, due_args, adjustVars, requestVars,
                   tutorVars, milestoneVars, moreVars>>

InitDue ==
    /\ now \in 0 .. MaxClock
    /\ IdleReview
    /\ IdleCalc
    /\ IdlePath
    /\ IdleNav
    /\ IdleInterleave
    /\ due_args \in [ questions : DueLists,
                      current_time : { <<>> } \cup { << t >> : t \in DueDays } ]
    /\ due_ret = <<>>
    /\ IdleAdjust
    /\ IdleRequests
    /\ IdleTutor
    /\ IdleMilestones
    /\ IdleMore

NextDue == CallDue

SpecDue == InitDue /\ [][NextDue]_vars

----------------------------------------------------------------------------
(* Direct calls of adjust_difficulty on arbitrary arguments *)

\* a Question row with any tier and any count of correct among its reviews
AdjustQuestions ==
    [ difficulty : Difficulties, times_reviewed : 0 .. MaxTimesReviewed,
      times_correct : 0 .. MaxTimesReviewed ]

CallAdjust ==
    /\ adjust_ret = <<>>
    /\ adjust_ret' = << adjust_difficulty(adjust_args.question,
                                          adjust_args.is_correct) >>
    /\ UNCHANGED <<now, reviewVars, calcVars, pathVars, navVars,
                   interleaveVars, dueVars, adjust_args, requestVars,
                   tutorVars, milestoneVars, moreVars>>

InitAdjust ==
    /\ now = 0
    /\ IdleReview
    /\ IdleCalc
    /\ IdlePath
    /\ IdleNav
    /\ IdleInterleave
    /\ IdleDue
    /\ adjust_args \in [ question : { q \in AdjustQuestions :
                                        q.times_correct <= q.times_reviewed },
                         is_correct : BOOLEAN ]
    /\ adjust_ret = <<>>
    /\ IdleRequests
    /\ IdleTutor
    /\ IdleMilestones
    /\ IdleMore

NextAdjust == CallAdjust

SpecAdjust == InitAdjust /\ [][NextAdjust]_vars

----------------------------------------------------------------------------
(* routers/reviews.py *)

\* SubmitAnswerRequest.confidence is an int the handler does not range-check:
\* the SM-2 scale and one value on either side of it
Confidences == QualityRange \cup {0 - 1, 6}

\* the moving average (avg * (n - 1) + x) / n, n the incremented count
UpdatedPrefs(p, is_correct) ==
    LET n == p.total_reviews + 1
        x == IF is_correct THEN 1 ELSE 0
        num == IF n = 1 THEN x ELSE p.avg_num * (n - 1) + x * p.avg_den
        den == IF n = 1 THEN 1 ELSE p.avg_den * n
        g == GCD(num, den)
    IN  [ total_reviews |-> n, avg_num |-> num \div g, avg_den |-> den \div g ]

\* POST /reviews/submit-answer for the stored session and question
SubmitAnswer(confidence, is_correct) ==
    /\ Len(card_reviews) < MaxReviews
    /\ LET counted == [ question EXCEPT
                          !.times_reviewed = @ + 1,
                          !.times_correct = IF is_correct THEN @ + 1 ELSE @ ]
           r == calculate_next_review(confidence, question.repetitions,
                    question.easiness_factor, question.interval_days, now)
           scheduled == [ counted EXCEPT
                            !.repetitions = r.new_repetitions,
                            !.easiness_factor = r.new_ef,
                            !.interval_days = r.new_interval,
                            !.next_review_date = r.next_review ]
       IN  /\ card_reviews' = Append(card_reviews,
                  [ is_correct |-> is_correct, confidence |-> confidence ])
           /\ question' = [ scheduled EXCEPT
                  !.difficulty = adjust_difficulty(scheduled, is_correct) ]
           /\ session' = [ session EXCEPT
                  !.total_questions = @ + 1,
                  !.correct_answers = IF is_correct THEN @ + 1 ELSE @ ]
           /\ user_prefs' = UpdatedPrefs(user_prefs, is_correct)
    /\ UNCHANGED <<now, calcVars, pathVars, navVars,
                   interleaveVars, otherVars>>

\* a day passes
Tick ==
    /\ now < MaxClock
    /\ now' = now + 1
    /\ UNCHANGED <<reviewVars, calcVars, pathVars, navVars,
                   interleaveVars, otherVars>>

Init ==
    /\ now = 0
    /\ question \in { FreshQuestion(d) : d \in Difficulties }
    /\ session = FreshSession
    /\ user_prefs = FreshPrefs
    /\ card_reviews = <<>>
    /\ IdleCalc
    /\ IdlePath
    /\ IdleNav
    /\ IdleInterleave
    /\ IdleOther

Next ==
    \/ \E c \in Confidences, ok \in BOOLEAN : SubmitAnswer(c, ok)
    \/ Tick

Spec == Init /\ [][Next]_vars

----------------------------------------------------------------------------
(* Direct calls of calculate_next_review on arbitrary arguments *)

EFInputs == {100, 130, 136, 250, 280}
IntervalInputs == { Days(0), Days(1), Days(6), Norm(1560, 1) }

CalcArgs ==
    [ quality : Confidences, repetitions : 0 .. MaxReps,
      easiness_factor : EFInputs, interval_days : IntervalInputs ]

Call ==
    /\ calc_ret' = << calculate_next_review(calc_args.quality,
                        calc_args.repetitions, calc_args.easiness_factor,
                        calc_args.interval_days, now) >>
    /\ UNCHANGED <<now, calc_args, reviewVars, pathVars, navVars,
                   interleaveVars, otherVars>>

InitCalc ==
    /\ now = 0
    /\ calc_args \in CalcArgs
    /\ calc_ret = <<>>
    /\ IdleReview
    /\ IdlePath
    /\ IdleNav
    /\ IdleInterleave
    /\ IdleOther

NextCalc == Call \/ Tick

SpecCalc == InitCalc /\ [][NextCalc]_vars

----------------------------------------------------------------------------
(* routers/reviews.py: two submit_answer requests for the same question,    *)
(* each in its own worker thread with its own db session.  A request loads  *)
(* the rows when it queries them, computes on its loaded copies, and writes *)
(* the values it computed when it commits.                                  *)

\* the Question columns the handler computes from the row q it loaded
ReviewedQuestion(q, confidence, is_correct, clock) ==
    LET counted == [ q EXCEPT
                       !.times_reviewed = @ + 1,
                       !.times_correct = IF is_correct THEN @ + 1 ELSE @ ]
        r == calculate_next_review(confidence, q.repetitions,
                 q.easiness_factor, q.interval_days, clock)
        scheduled == [ counted EXCEPT
                         !.repetitions = r.new_repetitions,
                         !.easiness_factor = r.new_ef,
                         !.interval_days = r.new_interval,
                         !.next_review_date = r.next_review ]
    IN  [ scheduled EXCEPT
            !.difficulty = adjust_difficulty(scheduled, is_correct) ]

\* db.query(ReviewSession)...first() and db.query(Question)...first()
LoadRows(r) ==
    /\ req_pc[r] = "received"
    /\ req_rows' = [ req_rows EXCEPT ![r].question = question,
                                     ![r].session = session ]
    /\ req_pc' = [ req_pc EXCEPT ![r] = "loaded" ]
    /\ UNCHANGED <<now, reviewVars, calcVars, pathVars, navVars,
                   interleaveVars, dueVars, adjustVars, req_answer,
                   tutorVars, milestoneVars, moreVars>>

\* db.query(UserPreference)...first()
LoadPrefs(r) ==
    /\ req_pc[r] = "loaded"
    /\ req_rows' = [ req_rows EXCEPT ![r].user_prefs = user_prefs ]
    /\ req_pc' = [ req_pc EXCEPT ![r] = "prefs_loaded" ]
    /\ UNCHANGED <<now, reviewVars, calcVars, pathVars, navVars,
                   interleaveVars, dueVars, adjustVars, req_answer,
                   tutorVars, milestoneVars, moreVars>>

\* db.commit(): the row values computed from the loaded copies are written
Commit(r) ==
    /\ req_pc[r] = "prefs_loaded"
    /\ LET a == req_answer[r]
           loaded == req_rows[r]
       IN  /\ card_reviews' = Append(card_reviews,
                  [ is_correct |-> a.is_correct,
                    confidence |-> a.confidence ])
           /\ question' = ReviewedQuestion(loaded.question, a.confidence,
                                           a.is_correct, now)
           /\ session' = [ loaded.session EXCEPT
                  !.total_questions = @ + 1,
                  !.correct_answers = IF a.is_correct THEN @ + 1 ELSE @ ]
           /\ user_prefs' = UpdatedPrefs(loaded.user_prefs, a.is_correct)
    /\ req_pc' = [ req_pc EXCEPT ![r] = "committed" ]
    /\ UNCHANGED <<now, calcVars, pathVars, navVars, interleaveVars,
                   dueVars, adjustVars, req_answer, req_rows, tutorVars,
                   milestoneVars, moreVars>>

InitConcurrent ==
    /\ now = 0
    /\ question \in { FreshQuestion(d) : d \in Difficulties }
    /\ session = FreshSession
    /\ user_prefs = FreshPrefs
    /\ card_reviews = <<>>
    /\ IdleCalc
    /\ IdlePath
    /\ IdleNav
    /\ IdleInterleave
    /\ IdleDue
    /\ IdleAdjust
    /\ req_answer \in [ Requests -> [ confidence : Confidences,
                                      is_correct : BOOLEAN ] ]
    /\ req_pc = [ r \in Requests |-> "received" ]
    /\ req_rows = [ r \in Requests |-> NothingLoaded ]
    /\ IdleTutor
    /\ IdleMilestones
    /\ IdleMore

NextConcurrent ==
    \E r \in Requests : LoadRows(r) \/ LoadPrefs(r) \/ Commit(r)

SpecConcurrent == InitConcurrent /\ [][NextConcurrent]_vars

----------------------------------------------------------------------------
(* routers/tutoring.py: end_tutoring_session and the next-concept endpoint, *)
(* followed in two runs that receive the same requests                      *)

\* what assess_depth reports as `confidence`, in hundredths; 50 is also what
\* it returns when the AI client is missing, fails or answers without JSON
AIConfidences == { 50, 90 }

\* ConceptMastery.times_practiced column default
DEFAULT_TIMES_PRACTICED == 0

\* mastery_score * 0.7 + new_score * 0.3, exactly; new_score in hundredths
WeightedScore(mastery_score, new_score) ==
    Norm(7000 * mastery_score.n + 30 * new_score * Pow100(mastery_score.e),
         mastery_score.e + 2)

\* the row end_tutoring_session leaves for the concept, from the row found
\* (<<>> when there is none) and the assessed confidence
PractisedRow(found, confidence) ==
    LET times_practiced ==
            (IF found = <<>> THEN DEFAULT_TIMES_PRACTICED
             ELSE found[1].times_practiced) + 1
    IN  [ times_practiced |-> times_practiced,
          mastery_score |->
              IF times_practiced = 1 THEN Norm(confidence, 1)
              ELSE WeightedScore(found[1].mastery_score, confidence) ]

\* POST /tutoring/sessions/{id}/end for a session on concept c that has
\* user turns; confidence[run] is what the AI assessed in that run
EndTutoringSession(c, confidence) ==
    /\ tutor_requests < MaxTutorRequests
    /\ tutor_requests' = tutor_requests + 1
    /\ tutor_masteries' =
           [ run \in Runs |->
               [ tutor_masteries[run] EXCEPT
                   ![c] = << PractisedRow(tutor_masteries[run][c],
                                          confidence[run]) >> ] ]
    /\ UNCHANGED <<now, reviewVars, calcVars, pathVars, navVars,
                   interleaveVars, dueVars, adjustVars, requestVars,
                   milestoneVars, moreVars,
                   tutor_next>>

\* the same request when the concept has no row yet and the freshly
\* constructed ConceptMastery carries no times_practiced before its INSERT:
\* `mastery.times_practiced += 1` raises and nothing is committed
EndTutoringSessionRaises(c) ==
    /\ tutor_requests < MaxTutorRequests
    /\ \A run \in Runs : tutor_masteries[run][c] = <<>>
    /\ tutor_requests' = tutor_requests + 1
    /\ UNCHANGED <<now, reviewVars, calcVars, pathVars, navVars,
                   interleaveVars, dueVars, adjustVars, requestVars,
                   milestoneVars, moreVars,
                   tutor_masteries, tutor_next>>

\* the stored LearningPath: concept 2 requires concept 1; concepts_mastered
\* is written by no handler and stays at its default 0
TutorConcepts ==
    << [ id |-> 1, prerequisites |-> <<>> ],
       [ id |-> 2, prerequisites |-> << 1 >> ] >>

TutorPath ==
    [ concept_sequence |-> << 1, 2 >>, current_concept_index |-> 0 ]

\* mastery_data of the endpoint; a score is handed over as its whole
\* hundredths, which compares with 0.7 and 0.8 as the score itself does
MasteryData(rows) ==
    LET ids == SelectSeq(<< 1, 2 >>, LAMBDA c : rows[c] # <<>>)
    IN  [ i \in 1 .. Len(ids) |->
            [ concept_id |-> ids[i],
              mastery_score |->
                  (rows[ids[i]][1].mastery_score.n * 100)
                      \div Pow100(rows[ids[i]][1].mastery_score.e) ] ]

\* GET /tutoring/learning-paths/{id}/next-concept
GetNextConcept ==
    /\ tutor_next' =
           [ run \in Runs |->
               << get_next_concept(TutorPath,
                                   MasteryData(tutor_masteries[run]),
                                   TutorConcepts) >> ]
    /\ UNCHANGED <<now, reviewVars, calcVars, pathVars, navVars,
                   interleaveVars, dueVars, adjustVars, requestVars,
                   milestoneVars, moreVars,
                   tutor_masteries, tutor_requests>>

InitTutor ==
    /\ now = 0
    /\ IdleReview
    /\ IdleCalc
    /\ IdlePath
    /\ IdleNav
    /\ IdleInterleave
    /\ IdleDue
    /\ IdleAdjust
    /\ IdleRequests
    /\ IdleTutor
    /\ IdleMilestones
    /\ IdleMore

NextTutor ==
    \/ \E c \in TutorConceptIds, confidence \in [ Runs -> AIConfidences ] :
           EndTutoringSession(c, confidence)
    \/ \E c \in TutorConceptIds : EndTutoringSessionRaises(c)
    \/ GetNextConcept

SpecTutor == InitTutor /\ [][NextTutor]_vars

----------------------------------------------------------------------------
(* Direct calls of _identify_milestones on arbitrary sequences *)

\* the ids of the concepts of a personalized sequence: distinct, any order
RECURSIVE DistinctSequences(_, _)
DistinctSequences(S, n) ==
    IF n = 0 THEN { <<>> }
    ELSE LET shorter == DistinctSequences(S, n - 1)
         IN  shorter \cup
             UNION { { Append(q, x) : x \in S \ Range(q) } :
                     q \in { r \in shorter : Len(r) = n - 1 } }

CallMilestones ==
    /\ milestone_ret = <<>>
    /\ milestone_ret' = << identify_milestones(milestone_args) >>
    /\ UNCHANGED <<now, reviewVars, calcVars, pathVars, navVars,
                   interleaveVars, dueVars, adjustVars, requestVars,
                   tutorVars, milestone_args, moreVars>>

InitMilestones ==
    /\ now = 0
    /\ IdleReview
    /\ IdleCalc
    /\ IdlePath
    /\ IdleNav
    /\ IdleInterleave
    /\ IdleDue
    /\ IdleAdjust
    /\ IdleRequests
    /\ IdleTutor
    /\ milestone_args \in DistinctSequences(1 .. MaxPathLength, MaxPathLength)
    /\ milestone_ret = <<>>
    /\ IdleMore

NextMilestones == CallMilestones

SpecMilestones == InitMilestones /\ [][NextMilestones]_vars

----------------------------------------------------------------------------
(* services/learning_path_engine.py: adapt_path *)

\* p.get('score', 0) and m.get('mastery_score', 0): the value is <<>> in a
\* dict without the key and <<v>> otherwise, v in hundredths
ValueOr0(v) == IF v = <<>> THEN 0 ELSE v[1]

\* sum(p.get('score', 0) for p in recent_performance)
RECURSIVE PerformanceTotal(_)
PerformanceTotal(recent_performance) ==
    IF recent_performance = <<>> THEN 0
    ELSE ValueOr0(Head(recent_performance).score)
         + PerformanceTotal(Tail(recent_performance))

\* the comparison taken as >= 0.9
AvgAbove90_Inclusive(recent_performance) ==
    PerformanceTotal(recent_performance)
        >= 90 * Max(Len(recent_performance), 1)

\* avg_performance > 0.9 and < 0.6, avg_performance the total divided by
\* max(len(recent_performance), 1)
AvgAbove90(recent_performance) ==
    PerformanceTotal(recent_performance)
        > 90 * Max(Len(recent_performance), 1)
AvgBelow60(recent_performance) ==
    PerformanceTotal(recent_performance)
        < 60 * Max(Len(recent_performance), 1)

\* learning_path.get('pace', 'moderate')
current_pace(path) == IF path.pace = <<>> THEN "moderate" ELSE path.pace[1]

\* the ids of the rows whose mastery_score is < 0.5
struggling_concepts(concept_masteries) ==
    LET rows == SelectSeq(concept_masteries,
                    LAMBDA m : ValueOr0(m.mastery_score) < 50)
    IN  [ i \in 1 .. Len(rows) |-> rows[i].concept_id ]

\* the ids of the rows whose mastery_score is > 0.9
mastered_concepts(concept_masteries) ==
    LET rows == SelectSeq(concept_masteries,
                    LAMBDA m : ValueOr0(m.mastery_score) > 90)
    IN  [ i \in 1 .. Len(rows) |-> rows[i].concept_id ]

\* pace_change is <<>> for None
adapt_path(path, recent_performance, concept_masteries) ==
    LET faster == /\ AvgAbove90(recent_performance)
                  /\ current_pace(path) # "fast"
        slower == /\ ~faster
                  /\ AvgBelow60(recent_performance)
                  /\ current_pace(path) # "slow"
        struggling == struggling_concepts(concept_masteries)
        mastered == mastered_concepts(concept_masteries)
    IN  [ adjustments_made |->
              (IF faster
               THEN << "Increased pace due to strong performance" >>
               ELSE IF slower
               THEN << "Slowed pace to strengthen fundamentals" >>
               ELSE <<>>)
              \o (IF struggling # <<>>
                  THEN << "Identified " \o ToString(Len(struggling))
                          \o " concepts needing review" >>
                  ELSE <<>>)
              \o (IF mastered # <<>>
                  THEN << "Skipping " \o ToString(Len(mastered))
                          \o " mastered concepts" >>
                  ELSE <<>>),
          pace_change |-> IF faster THEN << "fast" >>
                          ELSE IF slower THEN << "slow" >>
                          ELSE <<>>,
          concepts_added |-> <<>>,
          concepts_skipped |-> mastered ]

----------------------------------------------------------------------------
(* Direct calls of adapt_path on arbitrary arguments *)

\* a learning path dict without the key 'pace', and with each pace
Paces == { <<>>, << "slow" >>, << "moderate" >>, << "fast" >> }

\* scores of recent_performance: absent, and around 0.6 and 0.9
PerformanceScores == { <<>>, << 0 >>, << 50 >>, << 60 >>, << 90 >>, << 100 >> }

\* mastery scores: absent, and around 0.5 and 0.9
AdaptMasteryScores == { <<>>, << 40 >>, << 50 >>, << 90 >>, << 95 >> }

\* the concepts the mastery rows of a direct call are about
AdaptIds == { 1, 2 }

\* mastery rows of distinct concepts, in any order
AdaptMasteries ==
    UNION { { [ i \in 1 .. Len(ids) |->
                  [ concept_id |-> ids[i], mastery_score |-> s[i] ] ] :
                s \in [ 1 .. Len(ids) -> AdaptMasteryScores ] } :
            ids \in DistinctSequences(AdaptIds, MaxMasteries) }

AdaptArgs ==
    [ learning_path : [ pace : Paces ],
      recent_performance :
          UNION { [ 1 .. n -> [ score : PerformanceScores ] ] :
                  n \in 0 .. MaxPerformance },
      concept_masteries : AdaptMasteries ]

CallAdapt ==
    /\ adapt_ret = <<>>
    /\ adapt_ret' = << adapt_path(adapt_args.learning_path,
                                  adapt_args.recent_performance,
                                  adapt_args.concept_masteries) >>
    /\ UNCHANGED <<now, reviewVars, calcVars, pathVars, navVars,
                   interleaveVars, dueVars, adjustVars, requestVars,
                   tutorVars, milestoneVars, adapt_args, gapsVars,
                   createVars, newVars, nextqVars>>

InitAdapt ==
    /\ now = 0
    /\ IdleReview
    /\ IdleCalc
    /\ IdlePath
    /\ IdleNav
    /\ IdleInterleave
    /\ IdleDue
    /\ IdleAdjust
    /\ IdleRequests
    /\ IdleTutor
    /\ IdleMilestones
    /\ adapt_args \in AdaptArgs
    /\ adapt_ret = <<>>
    /\ IdleGaps
    /\ IdleCreate
    /\ IdleNew
    /\ IdleNextQuestions

NextAdapt == CallAdapt

SpecAdapt == InitAdapt /\ [][NextAdapt]_vars

----------------------------------------------------------------------------
(* services/learning_path_engine.py: identify_knowledge_gaps *)

\* mastery_map.get(id): <<>> for None, else <<the row>>; of two rows of one
\* concept the dict keeps the later
RECURSIVE MasteryRowOf(_, _)
MasteryRowOf(concept_masteries, id) ==
    IF concept_masteries = <<>> THEN <<>>
    ELSE LET n == Len(concept_masteries)
         IN  IF concept_masteries[n].concept_id = id
             THEN << concept_masteries[n] >>
             ELSE MasteryRowOf(SubSeq(concept_masteries, 1, n - 1), id)

\* a prerequisite without a row left out of the weak ones
IsWeakPrerequisite_RowRequired(concept_masteries, pid) ==
    LET row == MasteryRowOf(concept_masteries, pid)
    IN  row # <<>> /\ row[1].mastery_score < 60

\* mastery_map.get(pid, {}).get('mastery_score', 0) < 0.6
IsWeakPrerequisite(concept_masteries, pid) ==
    LET row == MasteryRowOf(concept_masteries, pid)
    IN  (IF row = <<>> THEN 0 ELSE row[1].mastery_score) < 60

\* the gaps one iteration of the loop appends for `concept`
GapsOf(concept_masteries, concept) ==
    LET mastery == MasteryRowOf(concept_masteries, concept.id)
        weak_prereqs ==
            SelectSeq(concept.prerequisites,
                      LAMBDA pid : IsWeakPrerequisite(concept_masteries, pid))
    IN  (IF /\ mastery # <<>>
            /\ mastery[1].mastery_score > 70
            /\ weak_prereqs # <<>>
         THEN << [ type |-> "weak_foundation", concept_id |-> concept.id,
                   weak_prerequisites |-> weak_prereqs,
                   severity |-> "high" ] >>
         ELSE <<>>)
        \o (IF mastery # <<>> /\ mastery[1].current_level = "understand"
            THEN << [ type |-> "needs_application",
                      concept_id |-> concept.id,
                      severity |-> "medium" ] >>
            ELSE <<>>)

RECURSIVE identify_knowledge_gaps(_, _)
identify_knowledge_gaps(concept_masteries, cs) ==
    IF cs = <<>> THEN <<>>
    ELSE GapsOf(concept_masteries, Head(cs))
         \o identify_knowledge_gaps(concept_masteries, Tail(cs))

----------------------------------------------------------------------------
(* Direct calls of identify_knowledge_gaps on arbitrary arguments *)

\* the concepts that may have a mastery row and be named as prerequisite
GapIds == { 1, 2 }

\* mastery scores around 0.6 and 0.7
GapScores == { 50, 60, 70, 80 }

\* Bloom levels a row may be at
GapLevels == { "remember", "understand", "apply" }

\* per concept no row, or a row with any score and level; rows in id order
GapMasteries ==
    LET choices == { <<>> } \cup
                   { << [ mastery_score |-> s, current_level |-> l ] >> :
                       s \in GapScores, l \in GapLevels }
    IN  { LET ids == SelectSeq(<< 1, 2 >>, LAMBDA id : f[id] # <<>>)
          IN  [ i \in 1 .. Len(ids) |->
                  [ concept_id |-> ids[i],
                    mastery_score |-> f[ids[i]][1].mastery_score,
                    current_level |-> f[ids[i]][1].current_level ] ] :
          f \in [ GapIds -> choices ] }

\* the concept dicts 1 .. n
RECURSIVE GapConceptLists(_)
GapConceptLists(n) ==
    IF n = 0 THEN { <<>> }
    ELSE { Append(shorter, [ id |-> n, prerequisites |-> ps ]) :
             shorter \in GapConceptLists(n - 1),
             ps \in PrerequisiteLists(GapIds, MaxGapPrereqs) }

GapArgs ==
    [ concept_masteries : GapMasteries,
      concepts : UNION { GapConceptLists(n) : n \in 0 .. MaxGapConcepts } ]

CallGaps ==
    /\ gaps_ret = <<>>
    /\ gaps_ret' = << identify_knowledge_gaps(gaps_args.concept_masteries,
                                              gaps_args.concepts) >>
    /\ UNCHANGED <<now, reviewVars, calcVars, pathVars, navVars,
                   interleaveVars, dueVars, adjustVars, requestVars,
                   tutorVars, milestoneVars, adaptVars, gaps_args,
                   createVars, newVars, nextqVars>>

InitGaps ==
    /\ now = 0
    /\ IdleReview
    /\ IdleCalc
    /\ IdlePath
    /\ IdleNav
    /\ IdleInterleave
    /\ IdleDue
    /\ IdleAdjust
    /\ IdleRequests
    /\ IdleTutor
    /\ IdleMilestones
    /\ IdleAdapt
    /\ gaps_args \in GapArgs
    /\ gaps_ret = <<>>
    /\ IdleCreate
    /\ IdleNew
    /\ IdleNextQuestions

NextGaps == CallGaps

SpecGaps == InitGaps /\ [][NextGaps]_vars

----------------------------------------------------------------------------
(* services/learning_path_engine.py: create_learning_path as one call *)

\* the while loop of _topological_sort run to its end
RECURSIVE SortLoop(_, _, _, _)
SortLoop(cs, deg, q, out) ==
    IF q = <<>> THEN out
    ELSE LET ordered == SortedByDifficulty(cs, q)
             concept == Head(ordered)
             r == ReleaseDependents(build_dependency_graph(cs)[concept],
                                    deg, Tail(ordered), <<>>)
         IN  SortLoop(cs, r.in_degree, r.queue, Append(out, concept))

topological_sort(cs) ==
    SortLoop(cs, InitialInDegree(cs),
             SelectSeq(IdsOf(cs), LAMBDA c : InitialInDegree(cs)[c] = 0),
             <<>>)

\* the hours of a path counted as if it held at least one concept
calculate_path_stats_AtLeastOne(cs, seq) ==
    [ total_hours |-> (Max(Len(seq), 1) * DEFAULT_MINUTES * 10) \div 60,
      difficulty_curve |-> [ i \in 1 .. Len(seq) |->
                               ConceptOf(cs, seq[i]).difficulty_level ] ]

\* _calculate_path_stats; total_hours counts tenths of an hour
calculate_path_stats(cs, seq) ==
    [ total_hours |-> (Len(seq) * DEFAULT_MINUTES * 10) \div 60,
      difficulty_curve |-> [ i \in 1 .. Len(seq) |->
                               ConceptOf(cs, seq[i]).difficulty_level ] ]

create_learning_path(cs) ==
    LET seq == topological_sort(cs)
        path_stats == calculate_path_stats(cs, seq)
    IN  [ concept_sequence |-> seq,
          total_concepts   |-> Len(seq),
          estimated_hours  |-> path_stats.total_hours,
          difficulty_curve |-> path_stats.difficulty_curve,
          milestones       |-> identify_milestones(seq) ]

----------------------------------------------------------------------------
(* services/spaced_repetition.py: get_new_questions *)

\* seq[:n] of Python: the first n items, or all but the last -n when n < 0
SliceTo(seq, n) ==
    IF n >= 0 THEN SubSeq(seq, 1, IF n < Len(seq) THEN n ELSE Len(seq))
    ELSE SubSeq(seq, 1, Max(Len(seq) + n, 0))

get_new_questions(questions, limit) ==
    SliceTo(SelectSeq(questions, LAMBDA q : q.times_reviewed = 0), limit)

----------------------------------------------------------------------------
(* Direct calls of the five list-taking operations on short inputs, the *)
(* empty ones among them                                                 *)

DirectConcepts ==
    { <<>>,
      << [ id |-> 1, prerequisites |-> <<>>, difficulty_level |-> 1 ] >>,
      << [ id |-> 1, prerequisites |-> <<>>, difficulty_level |-> 1 ],
         [ id |-> 2, prerequisites |-> << 1 >>, difficulty_level |-> 1 ] >> }

\* a path of no concept or of concept 1, the cursor at its start
DirectNavArgs ==
    { a \in NavArgs :
        /\ Len(a.concept_sequence) <= 1
        /\ a.current_concept_index = 0
        /\ EdgeCount(a.concepts) = 0
        /\ \A i \in 1 .. Len(a.concept_masteries) :
               a.concept_masteries[i].concept_id = 1 }

DirectDueArgs ==
    [ questions : { l \in DueLists : Len(l) <= 1 }, current_time : { <<>> } ]

\* limit=5 is the default of get_new_questions
DirectNewArgs ==
    [ questions : { <<>>, << [ id |-> 1, times_reviewed |-> 0 ] >>,
                    << [ id |-> 1, times_reviewed |-> 1 ] >> },
      limit : { 5 } ]

DirectInterleaveArgs ==
    [ questions : { <<>>, << [ id |-> 1, topic_id |-> 1 ] >> },
      interleaving_ratio : Ratios ]

CallCreate ==
    /\ create_ret = <<>>
    /\ create_ret' = << create_learning_path(create_args) >>
    /\ UNCHANGED <<now, reviewVars, calcVars, pathVars, navVars,
                   interleaveVars, dueVars, adjustVars, requestVars,
                   tutorVars, milestoneVars, adaptVars, gapsVars,
                   create_args, newVars, nextqVars>>

CallNew ==
    /\ new_ret = <<>>
    /\ new_ret' = << get_new_questions(new_args.questions, new_args.limit) >>
    /\ UNCHANGED <<now, reviewVars, calcVars, pathVars, navVars,
                   interleaveVars, dueVars, adjustVars, requestVars,
                   tutorVars, milestoneVars, adaptVars, gapsVars,
                   createVars, new_args, nextqVars>>

InitDirect ==
    /\ now = 0
    /\ IdleReview
    /\ IdleCalc
    /\ IdlePath
    /\ nav_args \in DirectNavArgs
    /\ nav_ret = <<>>
    /\ interleave_args \in DirectInterleaveArgs
    /\ interleave_ret = <<>>
    /\ due_args \in DirectDueArgs
    /\ due_ret = <<>>
    /\ IdleAdjust
    /\ IdleRequests
    /\ IdleTutor
    /\ IdleMilestones
    /\ IdleAdapt
    /\ IdleGaps
    /\ create_args \in DirectConcepts
    /\ create_ret = <<>>
    /\ new_args \in DirectNewArgs
    /\ new_ret = <<>>
    /\ IdleNextQuestions

NextDirect ==
    \/ CallCreate
    \/ CallNext
    \/ CallDue
    \/ CallNew
    \/ CallInterleave

SpecDirect == InitDirect /\ [][NextDirect]_vars

----------------------------------------------------------------------------
(* routers/tutoring.py: the next-concept endpoint for the stored path *)

\* the ConceptMastery rows of the user, in id order, for an assignment of
\* scores to concepts
StoredMasteryRows(f) ==
    LET ids == SelectSeq([ i \in 1 .. MaxConcepts |-> i ],
                         LAMBDA id : f[id] # NoRecord)
    IN  [ i \in 1 .. Len(ids) |->
            [ concept_id |-> ids[i], mastery_score |-> f[ids[i]] ] ]

\* GET /tutoring/learning-paths/{id}/next-concept; nav_args records what
\* the handler hands to the engine.  The handler writes no row, so one
\* request per behaviour shows all it can return.
NextConceptOfPath(f) ==
    /\ pc = "idle"
    /\ learning_path # <<>>
    /\ nav_ret = <<>>
    /\ LET row == learning_path[1]
           mastery_data == StoredMasteryRows(f)
           found == SelectSeq(concepts,
                        LAMBDA c : c.id \in Range(row.concept_sequence))
           concepts_data ==
               [ i \in 1 .. Len(found) |->
                   [ id |-> found[i].id,
                     prerequisites |-> found[i].prerequisites ] ]
           path == [ concept_sequence |-> row.concept_sequence,
                     current_concept_index |-> row.concepts_mastered ]
       IN  /\ nav_args' = [ concept_sequence |-> path.concept_sequence,
                            current_concept_index |->
                                path.current_concept_index,
                            concept_masteries |-> mastery_data,
                            concepts |-> concepts_data ]
           /\ nav_ret' = << get_next_concept(path, mastery_data,
                                             concepts_data) >>
    /\ UNCHANGED <<now, reviewVars, calcVars, pathVars, interleaveVars,
                   otherVars>>

NextPathNav ==
    \/ NextPath
    \/ \E f \in [ ConceptIds -> MasteryValues ] : NextConceptOfPath(f)

SpecPathNav == InitPath /\ [][NextPathNav]_vars

----------------------------------------------------------------------------
(* routers/reviews.py: get_next_questions *)

\* GET /reviews/next-questions/{session_id} over the stored rows; the ratio
\* is <<>> when the user has no UserPreference row; the result is the ids
\* of the response, in order
next_questions(all_questions, interleaving_ratio, limit, clock) ==
    LET due_questions == get_due_questions(all_questions, <<>>, clock)
        new_questions == get_new_questions(all_questions,
                                           Max(3, limit \div 3))
        combined == SliceTo(due_questions, limit - Len(new_questions))
                    \o new_questions
        questions_to_review ==
            IF interleaving_ratio # <<>> /\ interleaving_ratio[1] > 0
            THEN interleave_questions(combined, interleaving_ratio[1])
            ELSE combined
    IN  IdsOf(SliceTo(questions_to_review, limit))

\* a row nobody reviewed yet still has the next_review_date it was created
\* with (default=datetime.utcnow), which is not in the future; a reviewed
\* row has the date its last review set
StoredRows(clock) ==
    [ topic_id : { 1, 2 }, times_reviewed : { 0 },
      next_review_date : 0 .. clock ]
    \cup [ topic_id : { 1, 2 }, times_reviewed : { 1 },
           next_review_date : DueDays ]

\* the questions table: rows 1 .. n
StoredQuestions(clock) ==
    UNION { { [ i \in 1 .. n |->
                  [ id |-> i, topic_id |-> r[i].topic_id,
                    times_reviewed |-> r[i].times_reviewed,
                    next_review_date |-> r[i].next_review_date ] ] :
                r \in [ 1 .. n -> StoredRows(clock) ] } :
            n \in 0 .. MaxStoredQuestions }

\* limit as requested: 1, 2 and the default 10
Limits == { 1, 2, 10 }

GetNextQuestions ==
    /\ nextq_ret = <<>>
    /\ nextq_ret' = << next_questions(nextq_args.all_questions,
                                      nextq_args.interleaving_ratio,
                                      nextq_args.limit, now) >>
    /\ UNCHANGED <<now, reviewVars, calcVars, pathVars, navVars,
                   interleaveVars, dueVars, adjustVars, requestVars,
                   tutorVars, milestoneVars, adaptVars, gapsVars,
                   createVars, newVars, nextq_args>>

InitNextQuestions ==
    /\ now \in 0 .. MaxClock
    /\ IdleReview
    /\ IdleCalc
    /\ IdlePath
    /\ IdleNav
    /\ IdleInterleave
    /\ IdleDue
    /\ IdleAdjust
    /\ IdleRequests
    /\ IdleTutor
    /\ IdleMilestones
    /\ IdleAdapt
    /\ IdleGaps
    /\ IdleCreate
    /\ IdleNew
    /\ nextq_args \in [ all_questions : StoredQuestions(now),
                        interleaving_ratio : { <<>>, << 0 >>, << 30 >> },
                        limit : Limits ]
    /\ nextq_ret = <<>>

NextNextQuestions == GetNextQuestions

SpecNextQuestions == InitNextQuestions /\ [][NextNextQuestions]_vars

----------------------------------------------------------------------------
(* Claims about the dependency graph and the topological order *)

\* the ids concept `c` of `cs` lists as prerequisites (none for an absent id)
PrereqSet(cs, c) ==
    IF c \in Range(IdsOf(cs)) THEN Range(ConceptOf(cs, c).prerequisites)
    ELSE {}

RECURSIVE PrereqClosure(_, _, _)
PrereqClosure(cs, S, n) ==
    IF n = 0 THEN S
    ELSE PrereqClosure(cs, S \cup UNION { PrereqSet(cs, x) : x \in S }, n - 1)

\* no concept is directly or transitively its own prerequisite
Acyclic(cs) ==
    \A c \in Range(IdsOf(cs)) :
        c \notin PrereqClosure(cs, PrereqSet(cs, c), Len(cs))

\* every element of seq comes after those of its prerequisites that are in seq
RespectsPrerequisites(seq) ==
    \A i \in 1 .. Len(seq) :
        \A p \in PrereqSet(concepts, seq[i]) :
            p \in Range(seq) => IndexOf(seq, p) < i

PathStored == learning_path # <<>>
StoredSequence == learning_path[1].concept_sequence

\* C5: for every acyclic concept set, in the sequence _topological_sort
\* produces (and create_learning_path returns as concept_sequence) every
\* concept appears after all of its prerequisites that are in the sequence.
C5_TopologicalValidity ==
    Acyclic(concepts) =>
        /\ RespectsPrerequisites(sorted_concepts)
        /\ PathStored => RespectsPrerequisites(StoredSequence)

\* concept 1 needs 3 and 3 needs 2: the stored order is 2, 3, 1
C5_Witness ==
    /\ PathStored
    /\ Acyclic(concepts)
    /\ Len(concepts) = 3
    /\ concepts[1].prerequisites = << 3 >>
    /\ concepts[3].prerequisites = << 2 >>
    /\ StoredSequence = << 2, 3, 1 >>

Occurrences(seq, x) == Cardinality({ i \in 1 .. Len(seq) : seq[i] = x })

\* C6: for every acyclic concept set, whether or not each prerequisite id
\* names a concept of the supplied set, the topological order covers every
\* supplied concept exactly once, so total_concepts equals the number of
\* supplied concepts.
C6_CoversEveryConcept ==
    (Acyclic(concepts) /\ PathStored) =>
        /\ \A c \in Range(IdsOf(concepts)) : Occurrences(StoredSequence, c) = 1
        /\ learning_path[1].total_concepts = Len(concepts)

\* all prerequisites already emitted, itself not yet emitted
Ready(c) ==
    /\ c \in Range(IdsOf(concepts))
    /\ c \notin Range(sorted_concepts)
    /\ PrereqSet(concepts, c) \subseteq Range(sorted_concepts)

Difficulty(c) == ConceptOf(concepts, c).difficulty_level

\* the concept a step appends is ready, no ready concept is easier, and
\* every other ready concept of the same difficulty entered the queue later
EmitsEasiestReady ==
    (pc = "sort" /\ sorted_concepts' # sorted_concepts) =>
        LET c == sorted_concepts'[Len(sorted_concepts')]
        IN  /\ Ready(c)
            /\ \A d \in ConceptIds :
                  (Ready(d) /\ d # c) =>
                      \/ Difficulty(c) < Difficulty(d)
                      \/ /\ Difficulty(c) = Difficulty(d)
                         /\ IndexOf(enqueue_log, c) < IndexOf(enqueue_log, d)

\* X = 1 (difficulty 3), Y = 2 (difficulty 1), Z = 3 (needs X and Y,
\* difficulty 1)
IsXYZ ==
    /\ Len(concepts) = 3
    /\ concepts[1].prerequisites = <<>> /\ concepts[1].difficulty_level = 3
    /\ concepts[2].prerequisites = <<>> /\ concepts[2].difficulty_level = 1
    /\ concepts[3].prerequisites = << 1, 2 >>
    /\ concepts[3].difficulty_level = 1

\* C7: at every step _topological_sort emits a concept whose difficulty is
\* minimal among the ready concepts (all prerequisites emitted, itself not),
\* ties broken by the order of entering the ready queue; for X (difficulty
\* 3), Y (difficulty 1) and Z (needs X and Y, difficulty 1) the order is
\* Y, X, Z.
C7_EasiestReadyFirst ==
    /\ [][EmitsEasiestReady]_vars
    /\ []((IsXYZ /\ PathStored) => StoredSequence = << 2, 1, 3 >>)

\* two ready concepts of equal difficulty and an easier one that entered
\* the queue last: 1 and 2 (difficulty 3) are emitted in entry order
C7_Witness ==
    /\ PathStored
    /\ Len(concepts) = 3
    /\ concepts[1].difficulty_level = 3
    /\ concepts[2].difficulty_level = 3
    /\ concepts[3].difficulty_level = 1
    /\ concepts[1].prerequisites = <<>>
    /\ concepts[2].prerequisites = <<>>
    /\ concepts[3].prerequisites = <<>>
    /\ StoredSequence = << 3, 1, 2 >>

----------------------------------------------------------------------------
(* Claims about the review scheduler *)

\* the confidences of the recorded reviews, oldest first
Confidence(i) == card_reviews[i].confidence
AllFives == \A i \in 1 .. Len(card_reviews) : Confidence(i) = 5

\* C1: for every quality in 0..5, every repetitions, interval and input
\* easiness factor, calculate_next_review returns an easiness factor of at
\* least 1.3; so the easiness factor stored for a question that started
\* fresh is at least 1.3 after any sequence of submit_answer calls.
\* (The first half does not depend on the state: it is evaluated in the
\* states before the first review.)
C1_EFFloor ==
    /\ question.easiness_factor >= 130
    /\ Len(card_reviews) = 0 =>
          \A a \in CalcArgs :
              a.quality \in QualityRange =>
                calculate_next_review(a.quality, a.repetitions,
                    a.easiness_factor, a.interval_days, now).new_ef >= 130

\* two total failures in a row: 2.5 - 0.8 - 0.8 is below the floor
C1_Witness ==
    /\ Len(card_reviews) = 2
    /\ Confidence(1) = 0 /\ Confidence(2) = 0
    /\ question.easiness_factor = 130

\* C2: for quality 0, 1 or 2, whatever the prior repetitions, easiness
\* factor and interval, calculate_next_review returns new_repetitions = 0
\* and new_interval = 0.
C2_ResetLaw ==
    (Len(calc_ret) = 1 /\ calc_args.quality \in {0, 1, 2}) =>
        /\ calc_ret[1].new_repetitions = 0
        /\ calc_ret[1].new_interval = Days(0)

\* a lapse at grade 2 of an item with three repetitions and 15.6 days
C2_Witness ==
    /\ Len(calc_ret) = 1
    /\ calc_args.quality = 2
    /\ calc_args.repetitions = 3
    /\ calc_args.interval_days = Norm(1560, 1)
    /\ calc_ret[1].new_interval = Days(0)

\* C3: for quality 3, 4 or 5, calculate_next_review returns
\* new_repetitions = repetitions + 1 and an interval of 1 day when
\* repetitions was 0, 6 days when it was 1, and the old interval times the
\* NEW easiness factor when it was 2 or more.
C3_GrowthLaw ==
    (Len(calc_ret) = 1 /\ calc_args.quality \in 3 .. 5) =>
        LET r == calc_ret[1]
            old == calc_args.interval_days
        IN  /\ r.new_repetitions = calc_args.repetitions + 1
            /\ calc_args.repetitions = 0 => r.new_interval = Days(1)
            /\ calc_args.repetitions = 1 => r.new_interval = Days(6)
            /\ calc_args.repetitions >= 2 =>
                  EqDays(r.new_interval,
                         [n |-> old.n * r.new_ef, e |-> old.e + 1])

\* third success at grade 3 from EF 2.5: 6 days grow to 6 * 2.36 = 14.16
C3_Witness ==
    /\ Len(calc_ret) = 1
    /\ calc_args.quality = 3
    /\ calc_args.repetitions = 2
    /\ calc_args.easiness_factor = 250
    /\ calc_args.interval_days = Days(6)
    /\ calc_ret[1].new_ef = 236
    /\ calc_ret[1].new_interval = Norm(1416, 1)

\* C4 as stated: three consecutive quality-5 answers to a fresh item give
\* repetitions 3 and an interval of 6 times about 2.6, about 15.6 days
\* (taken as within 0.05 day of 15.6).
C4_AsStated ==
    (Len(card_reviews) = 3 /\ AllFives) =>
        /\ question.repetitions = 3
        /\ LeqDays(Norm(1555, 1), question.interval_days)
        /\ LeqDays(question.interval_days, Norm(1565, 1))

\* C4 amended: quality-5 answers to a fresh item, each applied to the state
\* the previous one left, give repetitions 1, 2, 3, easiness factors 2.6,
\* 2.7, 2.8 and intervals 1 day, 6 days and then 6 * 2.8 = 16.8 days.
C4_Trajectory ==
    (AllFives /\ Len(card_reviews) <= 3) =>
        /\ question.repetitions = Len(card_reviews)
        /\ question.easiness_factor = 250 + 10 * Len(card_reviews)
        /\ Len(card_reviews) = 0 => question.interval_days = Days(0)
        /\ Len(card_reviews) = 1 => question.interval_days = Days(1)
        /\ Len(card_reviews) = 2 => question.interval_days = Days(6)
        /\ Len(card_reviews) = 3 => question.interval_days = Norm(1680, 1)

C4_Witness ==
    /\ Len(card_reviews) = 3
    /\ AllFives
    /\ question.repetitions = 3
    /\ question.interval_days = Norm(1680, 1)

----------------------------------------------------------------------------
(* Claims about get_next_concept *)

NavCalled == nav_ret # <<>>
NavResult == nav_ret[1]
NavLen    == Len(nav_args.concept_sequence)
NavCursor == nav_args.current_concept_index

\* the score of the mastery row of id among the rows handed over, or none
HasRow(id) ==
    \E i \in 1 .. Len(nav_args.concept_masteries) :
        nav_args.concept_masteries[i].concept_id = id

ScoreOf(id) ==
    LET i == CHOOSE j \in 1 .. Len(nav_args.concept_masteries) :
                 nav_args.concept_masteries[j].concept_id = id
    IN  nav_args.concept_masteries[i].mastery_score

PrerequisitesOf(id) ==
    LET c == CHOOSE d \in Range(nav_args.concepts) : d.id = id
    IN  Range(c.prerequisites)

GatePasses(id) ==
    \A p \in PrerequisitesOf(id) : HasRow(p) /\ ScoreOf(p) >= 70

Unmastered(id) == ~HasRow(id) \/ ScoreOf(id) < 80

\* positions, counted from 0, at or after the cursor that may be returned
Candidates ==
    { idx \in NavCursor .. NavLen - 1 :
        /\ GatePasses(nav_args.concept_sequence[idx + 1])
        /\ Unmastered(nav_args.concept_sequence[idx + 1]) }

\* C8: get_next_concept never returns a concept one of whose prerequisites
\* has a mastery row with a score below 0.7 or has no mastery row at all;
\* a prerequisite at exactly 0.7 passes.
C8_PrerequisiteGate ==
    (NavCalled /\ NavResult.found) =>
        \A p \in PrerequisitesOf(NavResult.concept_id) :
            HasRow(p) /\ ScoreOf(p) >= 70

\* the concept under the cursor is held back by a prerequisite without a
\* row, and a later concept with a prerequisite at exactly 0.7 is returned
C8_Witness ==
    /\ NavCalled
    /\ NavResult.found
    /\ NavResult.index > NavCursor
    /\ LET held == nav_args.concept_sequence[NavCursor + 1]
       IN  /\ Unmastered(held)
           /\ \E p \in PrerequisitesOf(held) : ~HasRow(p)
    /\ \E p \in PrerequisitesOf(NavResult.concept_id) :
           HasRow(p) /\ ScoreOf(p) = 70

\* C9: get_next_concept returns the smallest position idx at or after the
\* current index whose concept passes the prerequisite gate and has no
\* mastery row or a score below 0.8, with index = idx and
\* progress = idx / len(sequence) * 100; it returns nothing when the current
\* index is at or past the end or no such position exists, and it never
\* returns a position before the current index.
C9_NextConcept ==
    NavCalled =>
        IF NavCursor >= NavLen \/ Candidates = {}
        THEN ~NavResult.found
        ELSE /\ NavResult.found
             /\ NavResult.index \in Candidates
             /\ \A idx \in Candidates : NavResult.index <= idx
             /\ NavResult.index >= NavCursor
             /\ NavResult.concept_id =
                    nav_args.concept_sequence[NavResult.index + 1]
             /\ NavResult.progress.num * NavLen =
                    NavResult.index * 100 * NavResult.progress.den

\* with the cursor at 1 of 3, position 1 is mastered, position 0 would be
\* eligible, and position 2 is returned at two thirds of the way
C9_Witness ==
    /\ NavCalled
    /\ NavLen = 3
    /\ NavCursor = 1
    /\ GatePasses(nav_args.concept_sequence[1])
    /\ Unmastered(nav_args.concept_sequence[1])
    /\ ~Unmastered(nav_args.concept_sequence[2])
    /\ NavResult.found
    /\ NavResult.index = 2
    /\ NavResult.progress = [ num |-> 200, den |-> 3 ]

----------------------------------------------------------------------------
(* Claims about interleave_questions *)

Interleaved == interleave_ret[1]

TimesIn(seq, q) == Cardinality({ i \in 1 .. Len(seq) : seq[i] = q })

TopicsIn(seq) == { seq[i].topic_id : i \in 1 .. Len(seq) }

\* C10: for every list and every ratio, the list interleave_questions
\* returns is a permutation of its input: the same length, and every
\* question as many times as in the input.
C10_Permutation ==
    interleave_ret # <<>> =>
        /\ Len(Interleaved) = Len(interleave_args.questions)
        /\ \A q \in QuestionPool :
               TimesIn(Interleaved, q) = TimesIn(interleave_args.questions, q)

\* a list over several topics, one of them with more questions than another
\* and one question twice, comes back in another order
C10_Witness ==
    /\ interleave_ret # <<>>
    /\ interleave_args.interleaving_ratio # 0
    /\ Cardinality(TopicsIn(interleave_args.questions)) >= 2
    /\ \E q \in QuestionPool : TimesIn(interleave_args.questions, q) = 2
    /\ Len(Interleaved) = MaxQuestions
    /\ Interleaved # interleave_args.questions

\* the input positions, and for position i: its rank among the positions of
\* its topic, and the position where its topic first appears
InputQuestions == interleave_args.questions

RankInTopic(i) ==
    Cardinality({ j \in 1 .. i :
                    InputQuestions[j].topic_id = InputQuestions[i].topic_id })

FirstSeen(i) ==
    CHOOSE j \in 1 .. i :
        /\ InputQuestions[j].topic_id = InputQuestions[i].topic_id
        /\ \A k \in 1 .. j - 1 :
               InputQuestions[k].topic_id # InputQuestions[i].topic_id

\* position j is taken before position i by a round-robin over the topics
TakenBefore(j, i) ==
    \/ RankInTopic(j) < RankInTopic(i)
    \/ RankInTopic(j) = RankInTopic(i) /\ FirstSeen(j) < FirstSeen(i)

RoundRobinPosition(i) ==
    1 + Cardinality({ j \in 1 .. Len(InputQuestions) : TakenBefore(j, i) })

ExampleInput ==
    << [ id |-> 1, topic_id |-> 1 ], [ id |-> 2, topic_id |-> 1 ],
       [ id |-> 3, topic_id |-> 1 ], [ id |-> 4, topic_id |-> 2 ],
       [ id |-> 5, topic_id |-> 2 ] >>

ExampleOutput ==
    << [ id |-> 1, topic_id |-> 1 ], [ id |-> 4, topic_id |-> 2 ],
       [ id |-> 2, topic_id |-> 1 ], [ id |-> 5, topic_id |-> 2 ],
       [ id |-> 3, topic_id |-> 1 ] >>

\* C11: for a non-empty input and a ratio above 0 the output is the
\* round-robin merge of the per-topic partitions, the topics visited in the
\* order they first appear, each visit taking the topic's next item in input
\* order and exhausted topics skipped; [A1,A2,A3,B1,B2] gives
\* [A1,B1,A2,B2,A3].  With ratio 0 or an empty input the input comes back
\* unchanged.
C11_RoundRobin ==
    interleave_ret # <<>> =>
        IF InputQuestions = <<>> \/ interleave_args.interleaving_ratio = 0
        THEN Interleaved = InputQuestions
        ELSE /\ Len(Interleaved) = Len(InputQuestions)
             /\ \A i \in 1 .. Len(InputQuestions) :
                    Interleaved[RoundRobinPosition(i)] = InputQuestions[i]
             /\ InputQuestions = ExampleInput => Interleaved = ExampleOutput

\* the example list has been interleaved with the default ratio
C11_Witness ==
    /\ interleave_ret # <<>>
    /\ interleave_args.interleaving_ratio = 30
    /\ InputQuestions = ExampleInput
    /\ Interleaved = ExampleOutput

----------------------------------------------------------------------------
(* Claims about get_due_questions *)

DueInput == due_args.questions
DueOutput == due_ret[1]

\* the time the call compares against
DueTime == IF due_args.current_time = <<>> THEN now
           ELSE due_args.current_time[1]

\* the input positions whose review date is not after that time
DuePositions ==
    { i \in 1 .. Len(DueInput) : DueInput[i].next_review_date <= DueTime }

\* C12: get_due_questions(items, now) returns exactly the items whose
\* next_review_date <= now, an item due exactly at now included and one due
\* later excluded, in their input order.
C12_DueFilter ==
    due_ret # <<>> =>
        /\ Len(DueOutput) = Cardinality(DuePositions)
        /\ \A i \in DuePositions :
               DueOutput[Cardinality({ j \in DuePositions : j <= i })]
                   = DueInput[i]

\* of three items due after, exactly at and before the time handed over,
\* the last two come back in input order
C12_Witness ==
    /\ due_ret # <<>>
    /\ due_args.current_time = << 1 >>
    /\ Len(DueInput) = 3
    /\ DueInput[1].next_review_date = 2
    /\ DueInput[2].next_review_date = 1
    /\ DueInput[3].next_review_date = 0
    /\ DueOutput = << DueInput[2], DueInput[3] >>

----------------------------------------------------------------------------
(* Claims about adjust_difficulty *)

TierOf(d) == IF d = "easy" THEN 1 ELSE IF d = "medium" THEN 2 ELSE 3

TierUp(d) == IF d = "easy" THEN "medium" ELSE "hard"

TierDown(d) == IF d = "hard" THEN "medium" ELSE "easy"

\* ten times times_correct / max(times_reviewed, 1) of the row handed over
AdjustCorrectTimes10 == adjust_args.question.times_correct * 10

AdjustReviewed ==
    IF adjust_args.question.times_reviewed > 1
    THEN adjust_args.question.times_reviewed ELSE 1

\* C13: adjust_difficulty returns the tier one step up (hard stays hard)
\* exactly when the answer is correct and times_correct /
\* max(times_reviewed, 1) > 0.9, the tier one step down (easy stays easy)
\* exactly when the answer is incorrect and that accuracy < 0.4, and the
\* current tier otherwise; the result is never two tiers from the input.
C13_AdjustDifficulty ==
    adjust_ret # <<>> =>
        LET d == adjust_args.question.difficulty
            up == /\ adjust_args.is_correct
                  /\ AdjustCorrectTimes10 > 9 * AdjustReviewed
            down == /\ ~adjust_args.is_correct
                    /\ AdjustCorrectTimes10 < 4 * AdjustReviewed
        IN  /\ adjust_ret[1] = IF up THEN TierUp(d)
                               ELSE IF down THEN TierDown(d) ELSE d
            /\ TierOf(adjust_ret[1]) - TierOf(d) \in { 0 - 1, 0, 1 }

\* a correct answer at accuracy 9/10 leaves a medium question medium
C13_Witness ==
    /\ adjust_ret = << "medium" >>
    /\ adjust_args.is_correct
    /\ adjust_args.question =
           [ difficulty |-> "medium", times_reviewed |-> 10,
             times_correct |-> 9 ]

----------------------------------------------------------------------------
(* Claims about the clock of calculate_next_review *)

\* C14: calculate_next_review is a pure function of its arguments: the clock
\* reading is an explicit input and is not read inside, so two calls with
\* identical arguments return identical tuples whatever the wall-clock time
\* of each call.
C14_PureOfArguments ==
    [][(calc_ret # <<>> /\ calc_ret' # <<>>) => calc_ret' = calc_ret]_vars

----------------------------------------------------------------------------
(* Claims about concurrent submissions *)

\* the columns SM-2 and the statistics keep for a question
ScheduleState(q) ==
    << q.repetitions, q.easiness_factor, q.interval_days, q.times_reviewed,
       q.times_correct >>

\* the submission of request r applied to the row q (the tier of q has no
\* part in the columns compared)
Submitted(q, r) ==
    ReviewedQuestion(q, req_answer[r].confidence, req_answer[r].is_correct,
                     now)

BothCommitted == \A r \in Requests : req_pc[r] = "committed"

\* C15: when two submit_answer requests for the same question run
\* concurrently they are serialized: the final repetitions, easiness_factor,
\* interval_days, times_reviewed and times_correct are those of applying the
\* two submissions one after the other in some order; no update is lost and
\* no SM-2 step is computed from a stale row.
C15_Serialized ==
    BothCommitted =>
        \E first \in Requests : \E second \in Requests \ { first } :
            ScheduleState(question) =
                ScheduleState(Submitted(Submitted(FreshQuestion("medium"),
                                                  first), second))

----------------------------------------------------------------------------
(* Claims about the quality handed to SM-2 *)

\* C16: every call of calculate_next_review made by submit_answer passes a
\* quality in 0..5: the submitted confidence is validated or clamped before
\* the call, so no sequence of submissions applies the SM-2 update with an
\* out-of-range quality.
C16_QualityInRange ==
    \A i \in 1 .. Len(card_reviews) :
        card_reviews[i].confidence \in QualityRange

----------------------------------------------------------------------------
(* Claims about termination of the topological sort *)

\* the concepts whose in-degree reaches 0: those all of whose prerequisite
\* entries name concepts that reach it before them
RECURSIVE ReachZero(_, _, _)
ReachZero(cs, S, n) ==
    IF n = 0 THEN S
    ELSE ReachZero(cs,
             S \cup { c \in Range(IdsOf(cs)) : PrereqSet(cs, c) \subseteq S },
             n - 1)

\* every prerequisite id names a concept of the set
PrerequisitesInside(cs) ==
    \A c \in Range(IdsOf(cs)) : PrereqSet(cs, c) \subseteq Range(IdsOf(cs))

OnCycle(cs, c) == c \in PrereqClosure(cs, PrereqSet(cs, c), Len(cs))

\* on a cycle, or with a direct or transitive prerequisite on one
CycleBound(cs) ==
    { c \in Range(IdsOf(cs)) :
        \/ OnCycle(cs, c)
        \/ \E d \in PrereqClosure(cs, PrereqSet(cs, c), Len(cs)) :
               OnCycle(cs, d) }

SortOutputExact ==
    PathStored =>
        /\ Range(StoredSequence) = ReachZero(concepts, {}, Len(concepts))
        /\ \A c \in Range(StoredSequence) : Occurrences(StoredSequence, c) = 1
        /\ PrerequisitesInside(concepts) =>
               Range(IdsOf(concepts)) \ Range(StoredSequence)
                   = CycleBound(concepts)

\* C17: _topological_sort terminates for every finite concept set, sets
\* with prerequisite cycles or a concept listing itself included; the loop
\* never emits more concepts than there are, and the output holds exactly
\* the concepts whose in-degree reaches 0, each once: the concepts on a
\* cycle and those depending on them are left out, all others are emitted.
C17_TerminatesWithCycles ==
    /\ [](Len(sorted_concepts) <= Len(concepts))
    /\ []SortOutputExact
    /\ (pc = "sort") ~> (pc = "idle" /\ PathStored)

\* concept 1 lists itself, concept 2 depends on 1 and concept 3 is free:
\* the sort has ended with 3 alone
C17_Witness ==
    /\ PathStored
    /\ pc = "idle"
    /\ Len(concepts) = 3
    /\ concepts[1].prerequisites = << 1 >>
    /\ concepts[2].prerequisites = << 1 >>
    /\ concepts[3].prerequisites = <<>>
    /\ StoredSequence = << 3 >>

----------------------------------------------------------------------------
(* Claims about the AI collaborator *)

----------------------------------------------------------------------------
(* Claims about the direction of the easiness factor *)

CalcCalled == calc_ret # <<>>

\* C19 as stated: for every quality in 0..4 and every EF >= 1.3 the new EF
\* is lower than the old EF, or equals 1.3 where the floor clamps it.
C19_AsStated ==
    (CalcCalled /\ calc_args.quality \in 0 .. 4
                /\ calc_args.easiness_factor >= 130) =>
        \/ calc_ret[1].new_ef < calc_args.easiness_factor
        \/ calc_ret[1].new_ef = 130

\* C19: for every EF >= 1.3, quality 0..3 lowers the easiness factor (or
\* leaves it at 1.3 where the floor clamps it), quality 4 leaves it
\* unchanged, and quality 5 raises it.
C19_EFDirection ==
    (CalcCalled /\ calc_args.easiness_factor >= 130) =>
        /\ calc_args.quality \in 0 .. 3 =>
               \/ calc_ret[1].new_ef < calc_args.easiness_factor
               \/ calc_ret[1].new_ef = 130
        /\ calc_args.quality = 4 =>
               calc_ret[1].new_ef = calc_args.easiness_factor
        /\ calc_args.quality = 5 =>
               calc_ret[1].new_ef > calc_args.easiness_factor

\* a review of quality 4 at EF 2.5 has returned EF 2.5
C19_Witness ==
    /\ CalcCalled
    /\ calc_args.quality = 4
    /\ calc_args.easiness_factor = 250
    /\ calc_ret[1].new_ef = 250

----------------------------------------------------------------------------
(* Claims about milestones *)

MilestonesCalled == milestone_ret # <<>>
Milestones == milestone_ret[1]

\* 1-indexed position floor(n * p / 100) of a sequence of length n
MarkerPosition(n, p) == (n * p) \div 100

Percentages == << 25, 50, 75, 100 >>

\* C20 as stated: every non-empty sequence of length n gets four markers,
\* at 25, 50, 75 and 100 percent, the marker for p percent referencing the
\* concept at 1-indexed position floor(n * p / 100).
C20_AsStated ==
    (MilestonesCalled /\ milestone_args # <<>>) =>
        /\ Len(Milestones) = 4
        /\ \A i \in 1 .. 4 :
               /\ Milestones[i].percentage = Percentages[i]
               /\ MarkerPosition(Len(milestone_args), Percentages[i]) >= 1
               /\ Milestones[i].concept_id =
                      milestone_args[MarkerPosition(Len(milestone_args),
                                                    Percentages[i])]

\* C20: for a sequence of length n the markers are those of 25, 50, 75 and
\* 100 percent whose 1-indexed position floor(n * p / 100) is at least 1,
\* in that order, each referencing the concept at that position; there are
\* four markers exactly when n >= 4, and for every non-empty sequence the
\* last marker is the 100 percent one and references the last concept.
C20_Milestones ==
    MilestonesCalled =>
        LET n == Len(milestone_args)
            marked == SelectSeq(Percentages,
                                LAMBDA p : MarkerPosition(n, p) >= 1)
        IN  /\ Len(Milestones) = Len(marked)
            /\ \A i \in 1 .. Len(marked) :
                   /\ Milestones[i].percentage = marked[i]
                   /\ Milestones[i].concept_id =
                          milestone_args[MarkerPosition(n, marked[i])]
            /\ (Len(Milestones) = 4) <=> (n >= 4)
            /\ n >= 1 =>
                   /\ Milestones[Len(Milestones)].percentage = 100
                   /\ Milestones[Len(Milestones)].concept_id =
                          milestone_args[n]

\* a sequence of three concepts has got three markers, none for 25 percent
C20_Witness ==
    /\ MilestonesCalled
    /\ milestone_args = << 2, 3, 1 >>
    /\ Milestones = << [ percentage |-> 50, concept_id |-> 2 ],
                       [ percentage |-> 75, concept_id |-> 3 ],
                       [ percentage |-> 100, concept_id |-> 1 ] >>

----------------------------------------------------------------------------
(* Claims about adapt_path *)

AdaptCalled == adapt_ret # <<>>
AdaptReport == adapt_ret[1]

\* the scores of the supplied recent_performance added up, position by
\* position, an entry without a score counting 0
RECURSIVE ScoreSum(_)
ScoreSum(n) ==
    IF n = 0 THEN 0
    ELSE LET s == adapt_args.recent_performance[n].score
         IN  ScoreSum(n - 1) + (IF s = <<>> THEN 0 ELSE s[1])

\* the pace the supplied path has, moderate when it names none
SuppliedPace ==
    IF adapt_args.learning_path.pace = <<>> THEN "moderate"
    ELSE adapt_args.learning_path.pace[1]

\* C21: for a non-empty recent_performance of mean m, adapt_path reports
\* pace_change fast exactly when m > 0.9 and the current pace is not fast,
\* slow exactly when m < 0.6 and the current pace is not slow, and none
\* otherwise; a mean in [0.6, 0.9], both ends included, changes nothing, and
\* the reported pace is never the current pace.
C21_PaceChange ==
    AdaptCalled =>
        LET n == Len(adapt_args.recent_performance)
            total == ScoreSum(n)
            change == AdaptReport.pace_change
        IN  /\ change \in { <<>>, << "fast" >>, << "slow" >> }
            /\ change # << SuppliedPace >>
            /\ n > 0 =>
                 /\ change = << "fast" >>
                      <=> (total > 90 * n /\ SuppliedPace # "fast")
                 /\ change = << "slow" >>
                      <=> (total < 60 * n /\ SuppliedPace # "slow")
                 /\ (60 * n <= total /\ total <= 90 * n) => change = <<>>

\* a mean of exactly 0.9 at a moderate pace: nothing changes
C21_Witness ==
    /\ AdaptCalled
    /\ adapt_args.recent_performance
           = << [ score |-> << 90 >> ], [ score |-> << 90 >> ] >>
    /\ adapt_args.learning_path.pace = << "moderate" >>
    /\ AdaptReport.pace_change = <<>>

\* the ids of the supplied mastery rows whose score satisfies P, in the
\* order of the rows, a row without a score counting 0
IdsWhere(P(_)) ==
    LET rows == SelectSeq(adapt_args.concept_masteries,
                    LAMBDA m : P(IF m.mastery_score = <<>> THEN 0
                                 ELSE m.mastery_score[1]))
    IN  [ i \in 1 .. Len(rows) |-> rows[i].concept_id ]

Struggling == IdsWhere(LAMBDA s : s < 50)
SkipCandidates == IdsWhere(LAMBDA s : s > 90)

\* C22: the report of adapt_path lists the ids of the concepts whose
\* mastery_score is < 0.5 and, in a list of its own, the ids of those whose
\* mastery_score is > 0.9, each in the order of the supplied masteries;
\* a concept with a score in [0.5, 0.9] is in neither list.
C22_ListsBothGroups ==
    AdaptCalled =>
        /\ AdaptReport.concepts_skipped = SkipCandidates
        /\ AdaptReport.concepts_added = Struggling

----------------------------------------------------------------------------
(* Claims about identify_knowledge_gaps *)

GapsCalled == gaps_ret # <<>>
Gaps == gaps_ret[1]

\* the mastery row supplied for a concept, if any
RowsFor(id) ==
    { i \in 1 .. Len(gaps_args.concept_masteries) :
        gaps_args.concept_masteries[i].concept_id = id }
RowFor(id) == gaps_args.concept_masteries[CHOOSE i \in RowsFor(id) : TRUE]

\* the score of a concept as a prerequisite: 0 without a row
FoundationScore(id) ==
    IF RowsFor(id) = {} THEN 0 ELSE RowFor(id).mastery_score

\* how many gaps of a type the returned list holds for a concept
GapCount(id, type) ==
    Cardinality({ i \in 1 .. Len(Gaps) :
                    Gaps[i].concept_id = id /\ Gaps[i].type = type })

\* C23: identify_knowledge_gaps emits a weak_foundation gap, severity high,
\* for a concept exactly when its own mastery_score is > 0.7 and some
\* prerequisite has mastery_score < 0.6 (0 without a row); it emits a
\* needs_application gap, severity medium, exactly when the concept's
\* current_level is understand, whatever the score; a concept meeting both
\* conditions yields both, and a concept without a mastery row yields none.
C23_KnowledgeGaps ==
    GapsCalled =>
        /\ \A i \in 1 .. Len(gaps_args.concepts) :
             LET c == gaps_args.concepts[i]
                 weak == /\ RowsFor(c.id) # {}
                         /\ RowFor(c.id).mastery_score > 70
                         /\ \E k \in 1 .. Len(c.prerequisites) :
                                FoundationScore(c.prerequisites[k]) < 60
                 unapplied == /\ RowsFor(c.id) # {}
                              /\ RowFor(c.id).current_level = "understand"
             IN  /\ GapCount(c.id, "weak_foundation") = IF weak THEN 1 ELSE 0
                 /\ GapCount(c.id, "needs_application")
                        = IF unapplied THEN 1 ELSE 0
        /\ \A i \in 1 .. Len(Gaps) :
             /\ \E k \in 1 .. Len(gaps_args.concepts) :
                    gaps_args.concepts[k].id = Gaps[i].concept_id
             /\ Gaps[i].type \in { "weak_foundation", "needs_application" }
             /\ Gaps[i].severity = IF Gaps[i].type = "weak_foundation"
                                   THEN "high" ELSE "medium"

\* concept 2 at 0.8 and at level understand, its prerequisite 1 without a
\* row: both gaps are emitted for it
C23_Witness ==
    /\ GapsCalled
    /\ gaps_args.concepts = << [ id |-> 1, prerequisites |-> <<>> ],
                               [ id |-> 2, prerequisites |-> << 1 >> ] >>
    /\ gaps_args.concept_masteries
           = << [ concept_id |-> 2, mastery_score |-> 80,
                  current_level |-> "understand" ] >>
    /\ Len(Gaps) = 2
    /\ Gaps[1].type = "weak_foundation"
    /\ Gaps[2].type = "needs_application"

----------------------------------------------------------------------------
(* Claims about empty inputs *)

\* C24: on empty inputs nothing fails and the outputs are neutral:
\* create_learning_path of no concepts returns an empty sequence, zero total
\* concepts, zero estimated hours and no milestones; get_next_concept on
\* an empty sequence returns none; get_due_questions, get_new_questions
\* and interleave_questions of an empty list return an empty list.
C24_EmptyInputs ==
    /\ (create_ret # <<>> /\ create_args = <<>>) =>
           /\ create_ret[1].concept_sequence = <<>>
           /\ create_ret[1].total_concepts = 0
           /\ create_ret[1].estimated_hours = 0
           /\ create_ret[1].milestones = <<>>
    /\ (nav_ret # <<>> /\ nav_args.concept_sequence = <<>>) =>
           ~nav_ret[1].found
    /\ (due_ret # <<>> /\ due_args.questions = <<>>) => due_ret[1] = <<>>
    /\ (new_ret # <<>> /\ new_args.questions = <<>>) => new_ret[1] = <<>>
    /\ (interleave_ret # <<>> /\ interleave_args.questions = <<>>) =>
           interleave_ret[1] = <<>>

\* all five called on empty inputs, the interleaving switched on
C24_Witness ==
    /\ create_ret # <<>> /\ create_args = <<>>
    /\ nav_ret # <<>> /\ nav_args.concept_sequence = <<>>
    /\ due_ret # <<>> /\ due_args.questions = <<>>
    /\ new_ret # <<>> /\ new_args.questions = <<>>
    /\ interleave_ret # <<>> /\ interleave_args.questions = <<>>
    /\ interleave_args.interleaving_ratio > 0

----------------------------------------------------------------------------
(* Claims about adjacent questions of one topic *)

\* the questions of a list that are not of topic t
OtherTopicCount(seq, t) ==
    Cardinality({ j \in 1 .. Len(seq) : seq[j].topic_id # t })

\* C25: in the output of interleave_questions with a ratio > 0 and at least
\* two topics, whenever positions i and i + 1 hold questions of the same
\* topic, every question of every other topic is at a position before i.
C25_AdjacentOnlyWhenForced ==
    ( /\ interleave_ret # <<>>
      /\ interleave_args.interleaving_ratio > 0
      /\ Cardinality(TopicsIn(interleave_args.questions)) >= 2 ) =>
        \A i \in 1 .. Len(Interleaved) - 1 :
            Interleaved[i].topic_id = Interleaved[i + 1].topic_id =>
                LET t == Interleaved[i].topic_id
                IN  /\ \A j \in i .. Len(Interleaved) :
                           Interleaved[j].topic_id = t
                    /\ OtherTopicCount(SubSeq(Interleaved, 1, i - 1), t)
                           = OtherTopicCount(interleave_args.questions, t)

\* three questions of topic 1 and one of topic 2: the last two of the
\* output are of topic 1, the question of topic 2 before them
C25_Witness ==
    /\ interleave_ret # <<>>
    /\ interleave_args.interleaving_ratio > 0
    /\ Len(interleave_args.questions) = 4
    /\ OtherTopicCount(interleave_args.questions, 1) = 1
    /\ Interleaved[2].topic_id = 2
    /\ Interleaved[3].topic_id = 1
    /\ Interleaved[4].topic_id = 1

----------------------------------------------------------------------------
(* Claims about the end of a learning path *)

\* C26: whenever get_next_concept returns none, which the endpoint reports
\* as the path being completed, every concept of the sequence at an index
\* at or after the current index has a mastery_score >= 0.8; none is not
\* returned while an unmastered concept remains, a concept behind a closed
\* prerequisite gate included.
C26_NoneMeansMastered ==
    (NavCalled /\ ~NavResult.found) =>
        \A idx \in NavCursor .. NavLen - 1 :
            ~Unmastered(nav_args.concept_sequence[idx + 1])

----------------------------------------------------------------------------
(* Claims about navigating a created path *)

\* positions of the stored sequence, counted from 0, whose concept has no
\* mastery row or a score below 0.8
UnmasteredPositions ==
    { idx \in 0 .. NavLen - 1 : Unmastered(nav_args.concept_sequence[idx + 1]) }

\* C27: for a path create_learning_path produced from an acyclic concept
\* set whose prerequisites all belong to the set, with the cursor at 0 and
\* the same concepts supplied, get_next_concept under any mastery snapshot
\* returns the first concept in sequence order without a mastery row or
\* with a score below 0.8, and returns none only if every concept of the
\* path is at 0.8 or above.
C27_NeverStuck ==
    ( /\ PathStored
      /\ NavCalled
      /\ Acyclic(concepts)
      /\ PrerequisitesInside(concepts) ) =>
        /\ NavCursor = 0
        /\ IdsOf(nav_args.concepts) = IdsOf(concepts)
        /\ IF UnmasteredPositions = {} THEN ~NavResult.found
           ELSE /\ NavResult.found
                /\ NavResult.index \in UnmasteredPositions
                /\ \A idx \in UnmasteredPositions : NavResult.index <= idx
                /\ NavResult.concept_id
                       = nav_args.concept_sequence[NavResult.index + 1]

\* three concepts in a chain, the first mastered, the second at exactly 0.7
\* and the third without a row: the second is returned
C27_Witness ==
    /\ PathStored
    /\ NavCalled
    /\ Acyclic(concepts)
    /\ PrerequisitesInside(concepts)
    /\ Len(concepts) = 3
    /\ EdgeCount(concepts) >= 2
    /\ ~Unmastered(nav_args.concept_sequence[1])
    /\ HasRow(nav_args.concept_sequence[2])
    /\ ScoreOf(nav_args.concept_sequence[2]) = 70
    /\ nav_args.concept_sequence[1]
           \in PrerequisitesOf(nav_args.concept_sequence[2])
    /\ ~HasRow(nav_args.concept_sequence[3])
    /\ NavResult.found
    /\ NavResult.index = 1

----------------------------------------------------------------------------
(* Claims about the next-questions operation *)

\* C28: for every limit >= 1 and every set of stored questions, the list
\* the next-questions operation returns holds no question twice; a question
\* that is due and was never reviewed is served once.
C28_NoDuplicates ==
    (nextq_ret # <<>> /\ nextq_args.limit >= 1) =>
        \A i, j \in 1 .. Len(nextq_ret[1]) :
            i # j => nextq_ret[1][i] # nextq_ret[1][j]

----------------------------------------------------------------------------
(* Claims about incorrect answers *)

\* C29: a submit_answer call recorded with is_correct = false never
\* increases the question's repetitions and leaves it no positive interval:
\* repetitions counts successful reviews only.
C29_IncorrectNeverAdvances ==
    [][ ( /\ Len(card_reviews') = Len(card_reviews) + 1
          /\ ~card_reviews'[Len(card_reviews')].is_correct ) =>
            /\ question'.repetitions <= question.repetitions
            /\ question'.interval_days = Days(0) ]_vars

----------------------------------------------------------------------------
(* Claims about the interval of a question under review *)

\* every review so far was submitted with a quality of the scale 0..5
AllInScale(reviews) ==
    \A i \in 1 .. Len(reviews) : reviews[i].confidence \in QualityRange

\* the seeds: no interval without a repetition, 1 day at the first and
\* 6 days at the second
SeedIntervals ==
    AllInScale(card_reviews) =>
        /\ question.interval_days = Days(0) <=> question.repetitions = 0
        /\ question.repetitions = 1 => question.interval_days = Days(1)
        /\ question.repetitions = 2 => question.interval_days = Days(6)

\* a review of quality 3..5 of a question at two or more repetitions
\* lengthens its interval, to at least 1.3 times what it was
GrowsFromSecond ==
    ( /\ Len(card_reviews') = Len(card_reviews) + 1
      /\ AllInScale(card_reviews')
      /\ card_reviews'[Len(card_reviews')].confidence >= 3
      /\ question.repetitions >= 2 ) =>
        /\ ~LeqDays(question'.interval_days, question.interval_days)
        /\ LeqDays(MulEF(question.interval_days, 130),
                   question'.interval_days)

\* C30: in every state reached from a fresh question by reviews of quality
\* 0..5, interval_days is 0 exactly when repetitions is 0, 1 when
\* repetitions is 1 and 6 when repetitions is 2, and every successful
\* review made at repetitions >= 2 strictly increases the interval, by a
\* factor of at least 1.3.
C30_IntervalSeedsAndGrowth ==
    []SeedIntervals /\ [][GrowsFromSecond]_vars

\* three reviews of quality 3: the third takes the interval from 6 days to
\* 6 * 2.08 = 12.48 days
C30_Witness ==
    /\ Len(card_reviews) = 3
    /\ \A i \in 1 .. 3 : card_reviews[i].confidence = 3
    /\ question.repetitions = 3
    /\ question.interval_days = Norm(1248, 1)

====
